---- MODULE Spec2Model ----
(***************************************************************************)
(* Model of the DataForge-Compute UDF execution engine                      *)
(* (src/src-tauri/src/compute): typed parameter validation, the execution   *)
(* context, and the staged ExecutionEngine::execute pipeline with its       *)
(* provenance record.                                                       *)
(*                                                                          *)
(* Conventions.  f64 values are modelled by integers plus the value NaN,    *)
(* compared with IEEE semantics (every comparison with NaN is false).       *)
(* Depths are integers counted in units of the 1e-6 depth tolerance.        *)
(* Text (String, format!) is a sequence of string tokens; concatenation is  *)
(* \o.  Option<T> is a record [some, v].  A HashMap is a function in which  *)
(* a key that is not present maps to the value with tag "Absent".           *)
(***************************************************************************)
EXTENDS Integers, Sequences, FiniteSets, TLC

VARIABLES
    pc,        \* position of the caller inside ExecutionEngine::execute
    req,       \* the arguments of the call: [udf_id, parameters]
    record,    \* Option<ExecutionRecord> built by the call (engine.rs:73)
    result,    \* what execute returned to its caller
    stage2,    \* Option<list of ValidationError> computed by stage 2
    loadIdx,   \* index into param_defs of the loading loop (engine.rs:150)
    builder,   \* ExecutionContextBuilder.curves: parameter name -> curve id
    ctx,       \* the ExecutionContext (after build): curves, refs, token
    raised,    \* Option<UdfError> that aborted execute_inner / postprocess
    output,    \* Option<UdfOutput> held by the engine
    trace,     \* history: stages, CurveLoader calls and UDF hooks, in order
    writes,    \* history: number of assignments to record.status / completed_at
    vo,        \* last validate_only call: [called, udf_id, parameters, result]
    registry,  \* the UdfRegistry: providers, udfs, udf_providers
    reg,       \* last register_provider call: outcome, calls made, registry before
    listing,   \* last listing or lookup call on the registry and what it gave
    fs,        \* the blob store: directories, names, the bytes of each file
    wr,        \* per caller of write_parquet_blob: position and locals
    written,   \* history: bytes -> what the first successful write of them returned
    db,        \* the rows of the curves table, in insertion order
    cm,        \* the call of commit_execution: position, arguments, record
    active,    \* ActiveExecutions.executions: execution id -> (token, progress)
    heap,      \* the Arc-shared CancellationTokens and ProgressStates, uuids drawn
    call,      \* per caller of execute_udf: position and locals
    mutex,     \* holder of the Mutex<ComputeState>, 0 when free
    obs,       \* last get_execution_progress / cancel_execution / list call and result
    depth_cache, \* DataForgeCurveLoader.depth_cache: well id -> Arc of depths
    loads,     \* history: the results of load_curve on this loader, in order
    arcs,      \* number of depth arrays the loader has allocated
    hook       \* a call of a shipped UDF's execute: input, parameters, output

engineVars == <<pc, req, record, result, stage2, loadIdx, builder, ctx, raised,
                output, trace, writes, vo>>

regVars == <<registry, reg, listing>>

writerVars == <<fs, wr, written>>

commitVars == <<db, cm>>

commandVars == <<active, heap, call, mutex, obs>>

loaderVars == <<depth_cache, loads, arcs>>

hookVars == <<hook>>

\* what a step of an engine call, a registry operation, a blob write leaves alone
outsideEngine ==
    <<regVars, writerVars, commitVars, commandVars, loaderVars, hookVars>>
outsideRegistry ==
    <<engineVars, writerVars, commitVars, commandVars, loaderVars, hookVars>>
outsideWriter ==
    <<engineVars, regVars, commitVars, commandVars, loaderVars, hookVars>>
outsideCommit ==
    <<engineVars, regVars, commandVars, loaderVars, hookVars>>
outsideCommand ==
    <<engineVars, regVars, writerVars, commitVars, loaderVars, hookVars>>
outsideLoader ==
    <<engineVars, regVars, writerVars, commitVars, commandVars, hookVars>>
outsideHook ==
    <<engineVars, regVars, writerVars, commitVars, commandVars, loaderVars>>

vars ==
    <<engineVars, regVars, writerVars, commitVars, commandVars, loaderVars,
      hookVars>>

(***************************************************************************)
(* Option and f64 helpers                                                   *)
(***************************************************************************)
None(dflt) == [some |-> FALSE, v |-> dflt]
Some(x) == [some |-> TRUE, v |-> x]

\* f64::NAN, the default of DepthResample's start_depth / end_depth
NaN == 1000

FLt(a, b) == a # NaN /\ b # NaN /\ a < b
FGt(a, b) == a # NaN /\ b # NaN /\ a > b
FLe(a, b) == a # NaN /\ b # NaN /\ a <= b
\* f64 subtraction and absolute value: NaN propagates
FSub(a, b) == IF a = NaN \/ b = NaN THEN NaN ELSE a - b
FAbs(a) == IF a = NaN THEN NaN ELSE IF a < 0 THEN -a ELSE a

RECURSIVE Join(_, _)
\* [String].join(sep) on token sequences
Join(parts, sep) ==
    IF Len(parts) = 0 THEN <<>>
    ELSE IF Len(parts) = 1 THEN parts[1]
    ELSE parts[1] \o <<sep>> \o Join(Tail(parts), sep)

(***************************************************************************)
(* compute/types.rs: CurveDataType                                          *)
(***************************************************************************)
CurveDataType == {"GammaRay", "Density", "NeutronPorosity", "Resistivity",
                  "Caliper", "Sonic", "SpontaneousPotential",
                  "PhotoelectricFactor", "Depth", "Computed", "Unknown"}

display_name(t) ==
    CASE t = "GammaRay" -> "Gamma Ray"
      [] t = "Density" -> "Bulk Density"
      [] t = "NeutronPorosity" -> "Neutron Porosity"
      [] t = "Resistivity" -> "Resistivity"
      [] t = "Caliper" -> "Caliper"
      [] t = "Sonic" -> "Sonic"
      [] t = "SpontaneousPotential" -> "Spontaneous Potential"
      [] t = "PhotoelectricFactor" -> "Photo-electric Factor"
      [] t = "Depth" -> "Depth"
      [] t = "Computed" -> "Computed"
      [] t = "Unknown" -> "Unknown"

(***************************************************************************)
(* compute/parameters.rs: ParameterValue                                    *)
(***************************************************************************)
PV(tag, v) == [tag |-> tag, v |-> v]
Null == PV("Null", 0)
Absent == PV("Absent", 0)

\* A String value v > 0 is the UUID text of curve v; v = 0 is other text.
as_curve(value) ==
    CASE value.tag = "Curve" -> Some(value.v)
      [] value.tag = "String" /\ value.v > 0 -> Some(value.v)
      [] OTHER -> None(0)

as_f64(value) ==
    CASE value.tag = "Number" -> Some(value.v)
      [] value.tag = "Integer" -> Some(value.v)
      [] OTHER -> None(0)

is_null(value) == value.tag = "Null"

\* HashMap::get
MapGet(values, name) ==
    IF name \in DOMAIN values /\ values[name].tag # "Absent"
    THEN Some(values[name]) ELSE None(Null)

\* ParameterValues::get_f64
get_f64(values, name) ==
    IF MapGet(values, name).some THEN as_f64(MapGet(values, name).v)
    ELSE None(0)

unwrap_or(opt, dflt) == IF opt.some THEN opt.v ELSE dflt

(***************************************************************************)
(* compute/error.rs: ValidationError and UdfError                           *)
(***************************************************************************)
ValidationError(field, message) ==
    [field |-> field, message |-> message, suggestion |-> None(<<>>)]

with_suggestion(e, s) == [e EXCEPT !.suggestion = Some(s)]

\* impl Display for ValidationError
ValidationErrorText(e) ==
    <<e.field, ": ">> \o e.message \o
    (IF e.suggestion.some
     THEN <<" (suggestion: ">> \o e.suggestion.v \o <<")">> ELSE <<>>)

UdfError(kind, detail) == [kind |-> kind, detail |-> detail]

ErrorPrefix(kind) ==
    CASE kind = "ProviderNotAvailable" -> "Provider not available: "
      [] kind = "UdfNotFound" -> "UDF not found: "
      [] kind = "ParameterValidation" -> "Parameter validation failed: "
      [] kind = "CurveTypeMismatch" -> "Curve type mismatch: expected "
      [] kind = "MissingCurve" -> "Required curve not provided: "
      [] kind = "CurveLoadError" -> "Failed to load curve data: "
      [] kind = "ExecutionFailed" -> "Execution failed: "
      [] kind = "PreCheckFailed" -> "Pre-execution check failed: "
      [] kind = "PostProcessFailed" -> "Post-processing failed: "
      [] kind = "IncompatibleData" -> "Incompatible curve data: "
      [] kind = "NumericError" -> "Numeric error: "
      [] kind = "Cancelled" -> "Cancelled"

\* thiserror's Display (e.to_string())
ErrorText(e) == <<ErrorPrefix(e.kind)>> \o e.detail

\* errors.iter().map(|e| e.to_string()).collect().join("; ")
RECURSIVE ErrorTexts(_)
ErrorTexts(errors) ==
    IF Len(errors) = 0 THEN <<>>
    ELSE <<ValidationErrorText(errors[1])>> \o ErrorTexts(Tail(errors))

ParameterValidationError(errors) ==
    UdfError("ParameterValidation", Join(ErrorTexts(errors), "; "))

NoError == None(UdfError("ExecutionFailed", <<>>))

(***************************************************************************)
(* compute/parameters.rs: CurveParameter and NumericParameter               *)
(***************************************************************************)
CurveParameter(name, label, required, allowed) ==
    [kind |-> "curve", name |-> name, label |-> label, required |-> required,
     default |-> None(0), min |-> None(0), max |-> None(0),
     allowed_types |-> allowed, min_length |-> None(0), allow_nulls |-> TRUE]

\* CurveParameter::with_min_length and require_no_nulls
with_min_length(def, min) == [def EXCEPT !.min_length = Some(min)]
require_no_nulls(def) == [def EXCEPT !.allow_nulls = FALSE]

NumericParameter(name, label, required, default, min, max) ==
    [kind |-> "number", name |-> name, label |-> label, required |-> required,
     default |-> default, min |-> min, max |-> max, allowed_types |-> <<>>]

param_type(def) == def.kind

default_value(def) ==
    IF def.kind = "number" /\ def.default.some
    THEN Some(PV("Number", def.default.v)) ELSE None(Null)

Ok == [ok |-> TRUE, err |-> ValidationError("", <<>>)]
Err(e) == [ok |-> FALSE, err |-> e]

CurveParameter_validate(def, value) ==
    IF is_null(value)
    THEN IF def.required
         THEN Err(ValidationError(def.name, <<"Required curve not provided">>))
         ELSE Ok
    ELSE IF ~as_curve(value).some
         THEN Err(ValidationError(def.name, <<"Value must be a valid curve UUID">>))
         ELSE Ok

NumericParameter_validate(def, value) ==
    IF is_null(value)
    THEN IF def.required /\ ~def.default.some
         THEN Err(ValidationError(def.name, <<"Required parameter not provided">>))
         ELSE Ok
    ELSE IF ~as_f64(value).some
         THEN Err(ValidationError(def.name, <<"Value must be a number">>))
    ELSE IF def.min.some /\ FLt(as_f64(value).v, def.min.v)
         THEN Err(with_suggestion(
                ValidationError(def.name, <<"Value must be >= ", ToString(def.min.v)>>),
                <<"Enter a value of ", ToString(def.min.v), " or greater">>))
    ELSE IF def.max.some /\ FGt(as_f64(value).v, def.max.v)
         THEN Err(with_suggestion(
                ValidationError(def.name, <<"Value must be <= ", ToString(def.max.v)>>),
                <<"Enter a value of ", ToString(def.max.v), " or less">>))
    ELSE Ok

\* dyn ParameterDefinition::validate
validate(def, value) ==
    IF def.kind = "curve" THEN CurveParameter_validate(def, value)
    ELSE NumericParameter_validate(def, value)

\* the "allowed_types" array of to_json(); absent for a numeric parameter
to_json_allowed_types(def) ==
    IF def.kind = "curve"
    THEN Some([i \in 1..Len(def.allowed_types) |-> display_name(def.allowed_types[i])])
    ELSE None(<<>>)

(***************************************************************************)
(* compute/engine.rs: stage 2, validate_parameters                          *)
(***************************************************************************)
\* values.get(def.name()).cloned().unwrap_or(ParameterValue::Null)
supplied(def, values) == unwrap_or(MapGet(values, def.name), Null)

\* Variant of final_value: a value the definition rejects falls back to the
\* default.
final_value_FallsBack(def, value) ==
    IF is_null(value) \/ (default_value(def).some /\ ~validate(def, value).ok)
    THEN unwrap_or(default_value(def), Null) ELSE value

\* "Apply default if null"
final_value(def, value) ==
    IF is_null(value) THEN unwrap_or(default_value(def), Null) ELSE value

\* Variant of required_error: the error is filed under the label.
required_error_Label(def) ==
    ValidationError(def.label, <<"'", def.label, "' is required">>)

required_error(def) ==
    ValidationError(def.name, <<"'", def.label, "' is required">>)

\* body of the loop over the definitions: the errors pushed for one of them
check_definition(def, values) ==
    LET value == supplied(def, values)
        checked == validate(def, final_value(def, value))
    IN IF is_null(value) /\ def.required /\ ~default_value(def).some
       THEN <<required_error(def)>>
       ELSE IF ~checked.ok THEN <<checked.err>> ELSE <<>>

RECURSIVE validate_from_FailFast(_, _, _)
\* Variant of validate_from: the loop returns at the first error.
validate_from_FailFast(definitions, values, i) ==
    IF i > Len(definitions) THEN <<>>
    ELSE IF Len(check_definition(definitions[i], values)) # 0
    THEN check_definition(definitions[i], values)
    ELSE validate_from_FailFast(definitions, values, i + 1)

RECURSIVE validate_from(_, _, _)
validate_from(definitions, values, i) ==
    IF i > Len(definitions) THEN <<>>
    ELSE check_definition(definitions[i], values)
         \o validate_from(definitions, values, i + 1)

validate_parameters(definitions, values) == validate_from(definitions, values, 1)

(***************************************************************************)
(* The CurveLoader capability and the curves it serves                      *)
(***************************************************************************)
\* |d1 - d2| > 1e-6, in units of 1e-6
DepthTolerance == 1

CurveData(id, type, ptr, depths, values) ==
    [curve_id |-> id, curve_type |-> type, depths_ptr |-> ptr, depths |-> depths,
     values |-> values, version |-> id, parquet_hash |-> <<"hash", ToString(id)>>]

\* Curves 1 and 2 share one depth allocation; 3 has equal depths in its own
\* allocation; 4 diverges at index 1; 5 has another sample count; 6 holds a
\* depth that is not a number; 7 is within the tolerance of 3 and beyond it
\* of 1.  Requests name curves 1 to 6; 7 is bound through add_curve.
CurveStore ==
    [id \in 1..7 |->
        CASE id = 1 -> CurveData(1, "GammaRay", 1, <<100, 200, 300>>,
                                 <<Some(20), None(0), Some(120)>>)
          [] id = 2 -> CurveData(2, "Density", 1, <<100, 200, 300>>,
                                 <<Some(2), Some(3), Some(2)>>)
          [] id = 3 -> CurveData(3, "Unknown", 2, <<100, 201, 300>>,
                                 <<None(0), None(0), None(0)>>)
          [] id = 4 -> CurveData(4, "GammaRay", 3, <<100, 202, 305>>,
                                 <<Some(60), Some(70), Some(80)>>)
          [] id = 5 -> CurveData(5, "Sonic", 4, <<100, 200>>, <<Some(90), Some(95)>>)
          [] id = 6 -> CurveData(6, "Density", 5, <<100, NaN, 300>>,
                                 <<Some(2), Some(NaN), None(0)>>)
          [] id = 7 -> CurveData(7, "Sonic", 6, <<100, 202, 300>>,
                                 <<Some(90), Some(95), Some(90)>>)]

\* CurveLoader::load_curve
load_curve(curve_id) ==
    IF curve_id \in DOMAIN CurveStore
    THEN [ok |-> TRUE, curve |-> CurveStore[curve_id],
          err |-> NoError.v]
    ELSE [ok |-> FALSE, curve |-> CurveStore[1],
          err |-> UdfError("CurveLoadError",
                           <<"Curve not found: ", ToString(curve_id)>>)]

(***************************************************************************)
(* compute/engine.rs: validate_curve_type                                   *)
(***************************************************************************)
SeqContains(s, x) == \E i \in 1..Len(s) : s[i] = x

ListTexts(s) == [i \in 1..Len(s) |-> <<s[i]>>]

\* Variant of validate_curve_type: an empty allowed_types list allows nothing.
validate_curve_type_EmptyRejects(def, curve) ==
    LET json == to_json_allowed_types(def)
        curve_type_name == display_name(curve.curve_type)
    IN IF ~json.some THEN NoError
       ELSE IF SeqContains(json.v, curve_type_name) THEN NoError
       ELSE Some(UdfError("CurveTypeMismatch",
                 Join(ListTexts(json.v), ", ") \o <<", got ", curve_type_name>>))

validate_curve_type(def, curve) ==
    LET json == to_json_allowed_types(def)
        curve_type_name == display_name(curve.curve_type)
    IN IF ~json.some THEN NoError
       ELSE IF Len(json.v) = 0 THEN NoError
       ELSE IF SeqContains(json.v, curve_type_name) THEN NoError
       ELSE Some(UdfError("CurveTypeMismatch",
                 Join(ListTexts(json.v), ", ") \o <<", got ", curve_type_name>>))

(***************************************************************************)
(* compute/context.rs: validate_depth_compatibility                         *)
(***************************************************************************)
\* iteration orders of a HashMap with key set S
Orders(S) ==
    {o \in [1..Cardinality(S) -> S] :
        \A i, j \in 1..Cardinality(S) : i # j => o[i] # o[j]}

Diverging(ref, depths) ==
    {i \in 1..Len(ref) : FGt(FAbs(FSub(ref[i], depths[i])), DepthTolerance)}

Min(S) == CHOOSE x \in S : \A y \in S : x <= y

\* one curve against the reference; indices in messages are 0-based
compare_depths(name, ref, curve) ==
    IF ref.depths_ptr = curve.depths_ptr THEN NoError
    ELSE IF Len(ref.depths) # Len(curve.depths)
    THEN Some(UdfError("IncompatibleData",
            <<"Curve '", name, "' has ", ToString(Len(curve.depths)),
              " samples, expected ", ToString(Len(ref.depths))>>))
    ELSE IF Diverging(ref.depths, curve.depths) # {}
    THEN LET i == Min(Diverging(ref.depths, curve.depths))
         IN Some(UdfError("IncompatibleData",
              <<"Depth mismatch at index ", ToString(i - 1), " for curve '", name,
                "': ", ToString(ref.depths[i]), " vs ", ToString(curve.depths[i])>>))
    ELSE NoError

RECURSIVE depth_walk(_, _, _)
depth_walk(order, curves, i) ==
    IF i > Len(order) THEN NoError
    ELSE LET r == compare_depths(order[i], CurveStore[curves[order[1]]],
                                 CurveStore[curves[order[i]]])
         IN IF r.some THEN r ELSE depth_walk(order, curves, i + 1)

\* `order` is the order in which the HashMap yields the bound curves
validate_depth_compatibility(order, curves) == depth_walk(order, curves, 2)

(***************************************************************************)
(* The registry the engine was built with: two shipped UDFs and one         *)
(* arbitrary implementation of the Udf trait                                *)
(***************************************************************************)
VShaleLinearUdf ==
    [id |-> "petro:vshale_linear", version |-> "1.0.0", shipped |-> TRUE,
     defs |-> <<CurveParameter("gr_curve", "Gamma Ray Curve", TRUE, <<"GammaRay">>),
                NumericParameter("gr_min", "GR Clean (Min)", TRUE,
                                 None(0), Some(0), None(0)),
                NumericParameter("gr_max", "GR Shale (Max)", TRUE,
                                 None(0), Some(0), None(0))>>]

VShaleClavier ==
    [id |-> "petro:vshale_clavier", version |-> "1.0.0", shipped |-> TRUE,
     defs |-> <<CurveParameter("gr_curve", "Gamma Ray Curve", TRUE, <<"GammaRay">>),
                NumericParameter("gr_min", "GR Clean (Min)", TRUE,
                                 None(0), Some(0), None(0)),
                NumericParameter("gr_max", "GR Shale (Max)", TRUE,
                                 None(0), Some(0), None(0))>>]

VShaleSteiber ==
    [id |-> "petro:vshale_steiber", version |-> "1.0.0", shipped |-> TRUE,
     defs |-> <<CurveParameter("gr_curve", "Gamma Ray Curve", TRUE, <<"GammaRay">>),
                NumericParameter("gr_min", "GR Clean (Min)", TRUE,
                                 None(0), Some(0), None(0)),
                NumericParameter("gr_max", "GR Shale (Max)", TRUE,
                                 None(0), Some(0), None(0))>>]

LinearScaleUdf ==
    [id |-> "core:linear_scale", version |-> "1.0.0", shipped |-> TRUE,
     defs |-> <<CurveParameter("input_curve", "Input Curve", TRUE, <<>>),
                NumericParameter("in_min", "Input Min", TRUE,
                                 None(0), None(0), None(0)),
                NumericParameter("in_max", "Input Max", TRUE,
                                 None(0), None(0), None(0)),
                NumericParameter("out_min", "Output Min", FALSE,
                                 Some(0), None(0), None(0)),
                NumericParameter("out_max", "Output Max", FALSE,
                                 Some(1), None(0), None(0))>>]

\* with_min(0.001): the least positive whole number stands for it
DepthResampleUdf ==
    [id |-> "core:depth_resample", version |-> "1.0.0", shipped |-> TRUE,
     defs |-> <<CurveParameter("input_curve", "Input Curve", TRUE, <<>>),
                NumericParameter("new_step", "New Step", TRUE,
                                 None(0), Some(1), None(0)),
                NumericParameter("start_depth", "Start Depth", FALSE,
                                 Some(NaN), None(0), None(0)),
                NumericParameter("end_depth", "End Depth", FALSE,
                                 Some(NaN), None(0), None(0))>>]

MovingAverageUdf ==
    [id |-> "core:moving_average", version |-> "1.0.0", shipped |-> TRUE,
     defs |-> <<CurveParameter("input_curve", "Input Curve", TRUE, <<>>),
                NumericParameter("window_size", "Window Size", FALSE,
                                 Some(5), Some(3), Some(101))>>]

\* Any plug-in: two curve inputs, the first declared with a minimum length and
\* without nulls, a required number with a default, and hooks whose results are
\* not determined by the engine.
PluginUdf ==
    [id |-> "plugin:custom", version |-> "0.1.0", shipped |-> FALSE,
     defs |-> <<require_no_nulls(with_min_length(
                    CurveParameter("a", "Curve A", TRUE, <<"GammaRay", "Density">>), 4)),
                CurveParameter("b", "Curve B", FALSE, <<>>),
                NumericParameter("n", "Count", TRUE, Some(5), Some(3), Some(101))>>]

Registry ==
    [id \in {"petro:vshale_linear", "petro:vshale_clavier", "petro:vshale_steiber",
              "core:moving_average", "core:linear_scale", "core:depth_resample",
              "plugin:custom"} |->
        CASE id = "petro:vshale_linear" -> VShaleLinearUdf
          [] id = "petro:vshale_clavier" -> VShaleClavier
          [] id = "petro:vshale_steiber" -> VShaleSteiber
          [] id = "core:moving_average" -> MovingAverageUdf
          [] id = "core:linear_scale" -> LinearScaleUdf
          [] id = "core:depth_resample" -> DepthResampleUdf
          [] id = "plugin:custom" -> PluginUdf]

\* UdfRegistry::get_udf
get_udf(udf_id) ==
    IF udf_id \in DOMAIN Registry THEN Some(Registry[udf_id])
    ELSE None(VShaleLinearUdf)

ParamNames(udf_id) ==
    IF get_udf(udf_id).some
    THEN {Registry[udf_id].defs[i].name : i \in 1..Len(Registry[udf_id].defs)}
    ELSE {}

(***************************************************************************)
(* The UDF hooks: the set of results each may give in a context             *)
(***************************************************************************)
\* `f as usize`: saturating, NaN becomes 0
as_usize(f) == IF f = NaN \/ f < 0 THEN 0 ELSE f

VShaleLinear_check_parameters(parameters) ==
    LET gr_min == unwrap_or(get_f64(parameters, "gr_min"), 0)
        gr_max == unwrap_or(get_f64(parameters, "gr_max"), 0)
    IN IF FLe(gr_max, gr_min)
       THEN <<ValidationError("gr_max", <<"GR Max must be greater than GR Min">>)>>
       ELSE <<>>

MovingAverage_check_parameters(parameters) ==
    LET window == as_usize(unwrap_or(get_f64(parameters, "window_size"), 5))
    IN IF window % 2 = 0
       THEN <<with_suggestion(
               ValidationError("window_size",
                   <<"Window size should be odd for symmetric averaging">>),
               <<"Use an odd number like 3, 5, 7, etc.">>)>>
       ELSE <<>>

\* VShaleClavier and VShaleSteiber repeat the check of VShaleLinearUdf
VShaleClavier_check_parameters(parameters) ==
    LET gr_min == unwrap_or(get_f64(parameters, "gr_min"), 0)
        gr_max == unwrap_or(get_f64(parameters, "gr_max"), 0)
    IN IF FLe(gr_max, gr_min)
       THEN <<ValidationError("gr_max", <<"GR Max must be greater than GR Min">>)>>
       ELSE <<>>

VShaleSteiber_check_parameters(parameters) ==
    LET gr_min == unwrap_or(get_f64(parameters, "gr_min"), 0)
        gr_max == unwrap_or(get_f64(parameters, "gr_max"), 0)
    IN IF FLe(gr_max, gr_min)
       THEN <<ValidationError("gr_max", <<"GR Max must be greater than GR Min">>)>>
       ELSE <<>>

\* 1e-10: numbers in the model are whole, so |x| < 1e-10 is x = 0
RangeEpsilon == 1

\* Variant of LinearScale_check_parameters: the input range is not looked at.
LinearScale_check_parameters_Unchecked(parameters) == <<>>

LinearScale_check_parameters(parameters) ==
    LET in_min == unwrap_or(get_f64(parameters, "in_min"), 0)
        in_max == unwrap_or(get_f64(parameters, "in_max"), 1)
    IN IF FLt(FAbs(FSub(in_max, in_min)), RangeEpsilon)
       THEN <<ValidationError("in_max",
                 <<"Input range cannot be zero (in_min == in_max)">>)>>
       ELSE <<>>

DepthResample_check_parameters(parameters) ==
    LET new_step == unwrap_or(get_f64(parameters, "new_step"), 0)
    IN IF FLe(new_step, 0)
       THEN <<ValidationError("new_step", <<"Step size must be positive">>)>>
       ELSE <<>>

check_parameters(udf, context, parameters) ==
    CASE udf.id = "petro:vshale_linear" -> {VShaleLinear_check_parameters(parameters)}
      [] udf.id = "petro:vshale_clavier" -> {VShaleClavier_check_parameters(parameters)}
      [] udf.id = "petro:vshale_steiber" -> {VShaleSteiber_check_parameters(parameters)}
      [] udf.id = "core:moving_average" -> {MovingAverage_check_parameters(parameters)}
      [] udf.id = "core:linear_scale" -> {LinearScale_check_parameters(parameters)}
      [] udf.id = "core:depth_resample" -> {DepthResample_check_parameters(parameters)}
      [] OTHER -> {<<>>, <<ValidationError("n", <<"rejected by the plug-in">>)>>}

can_execute(udf, context) == IF udf.shipped THEN {TRUE} ELSE BOOLEAN

HookOk(v) == [ok |-> TRUE, v |-> v, err |-> NoError.v]
HookErr(e) == [ok |-> FALSE, v |-> FALSE, err |-> e]

\* ExecutionContext::check_cancelled, as a hook may call it
check_cancelled(context) ==
    IF context.cancelled THEN {HookErr(UdfError("Cancelled", <<>>))} ELSE {}

PluginFailure == HookErr(UdfError("ExecutionFailed", <<"plug-in failure">>))

prepare(udf, context) ==
    IF udf.shipped THEN {HookOk(TRUE)}
    ELSE {HookOk(TRUE), HookOk(FALSE), PluginFailure} \cup check_cancelled(context)

\* ExecutionContext::require_curve
require_curve(context, name) ==
    IF name \in DOMAIN context.curves THEN {}
    ELSE {HookErr(UdfError("MissingCurve", <<name>>))}

VShaleLinear_execute(context, parameters) ==
    IF require_curve(context, "gr_curve") # {} THEN require_curve(context, "gr_curve")
    ELSE IF ~get_f64(parameters, "gr_min").some
    THEN {HookErr(UdfError("ParameterValidation", <<"gr_min is required">>))}
    ELSE IF ~get_f64(parameters, "gr_max").some
    THEN {HookErr(UdfError("ParameterValidation", <<"gr_max is required">>))}
    ELSE {HookOk(TRUE)}

MovingAverage_execute(context, parameters) ==
    IF require_curve(context, "input_curve") # {}
    THEN require_curve(context, "input_curve")
    ELSE {HookOk(TRUE)}

\* Option::unwrap on None panics: the thread unwinds out of the engine
HookPanic == HookErr(UdfError("panic", <<"called Option::unwrap() on a None value">>))

VShaleClavier_execute(context, parameters) ==
    IF require_curve(context, "gr_curve") # {} THEN require_curve(context, "gr_curve")
    ELSE IF ~get_f64(parameters, "gr_min").some THEN {HookPanic}
    ELSE IF ~get_f64(parameters, "gr_max").some THEN {HookPanic}
    ELSE {HookOk(TRUE)}

VShaleSteiber_execute(context, parameters) ==
    IF require_curve(context, "gr_curve") # {} THEN require_curve(context, "gr_curve")
    ELSE IF ~get_f64(parameters, "gr_min").some THEN {HookPanic}
    ELSE IF ~get_f64(parameters, "gr_max").some THEN {HookPanic}
    ELSE {HookOk(TRUE)}

LinearScale_execute(context, parameters) ==
    IF require_curve(context, "input_curve") # {}
    THEN require_curve(context, "input_curve")
    ELSE IF ~get_f64(parameters, "in_min").some
    THEN {HookErr(UdfError("ParameterValidation", <<"in_min is required">>))}
    ELSE IF ~get_f64(parameters, "in_max").some
    THEN {HookErr(UdfError("ParameterValidation", <<"in_max is required">>))}
    ELSE {HookOk(TRUE)}

\* get_f64(name).filter(|v| !v.is_nan()).unwrap_or(dflt)
filter_nan_or(opt, dflt) == IF opt.some /\ opt.v # NaN THEN opt.v ELSE dflt

DepthResample_execute(context, parameters) ==
    IF require_curve(context, "input_curve") # {}
    THEN require_curve(context, "input_curve")
    ELSE IF ~get_f64(parameters, "new_step").some
    THEN {HookErr(UdfError("ParameterValidation", <<"new_step is required">>))}
    ELSE LET original_depths == CurveStore[context.curves["input_curve"]].depths
         IN IF Len(original_depths) = 0
            THEN {HookErr(UdfError("ExecutionFailed", <<"Input curve has no data">>))}
            ELSE LET start_depth == filter_nan_or(get_f64(parameters, "start_depth"),
                                                  original_depths[1])
                     end_depth == filter_nan_or(get_f64(parameters, "end_depth"),
                                                original_depths[Len(original_depths)])
                 IN IF FLe(end_depth, start_depth)
                    THEN {HookErr(UdfError("ParameterValidation",
                             <<"End depth must be greater than start depth">>))}
                    ELSE {HookOk(TRUE)}

\* the divisor the execute hook computes: gr_range / in_range
range_divisor(udf, parameters) ==
    IF udf.id = "core:linear_scale"
    THEN FSub(get_f64(parameters, "in_max").v, get_f64(parameters, "in_min").v)
    ELSE FSub(get_f64(parameters, "gr_max").v, get_f64(parameters, "gr_min").v)

execute_hook(udf, context, parameters) ==
    CASE udf.id = "petro:vshale_linear" -> VShaleLinear_execute(context, parameters)
      [] udf.id = "petro:vshale_clavier" -> VShaleClavier_execute(context, parameters)
      [] udf.id = "petro:vshale_steiber" -> VShaleSteiber_execute(context, parameters)
      [] udf.id = "core:moving_average" -> MovingAverage_execute(context, parameters)
      [] udf.id = "core:linear_scale" -> LinearScale_execute(context, parameters)
      [] udf.id = "core:depth_resample" -> DepthResample_execute(context, parameters)
      [] OTHER -> {HookOk(TRUE), PluginFailure} \cup check_cancelled(context)

postprocess(udf, context) ==
    IF udf.shipped THEN {HookOk(TRUE)}
    ELSE {HookOk(TRUE),
          HookErr(UdfError("PostProcessFailed", <<"plug-in postprocess">>))}
         \cup check_cancelled(context)

(***************************************************************************)
(* Requests                                                                 *)
(***************************************************************************)
EmptyMap == [n \in {} |-> 0]

MapInsert(map, name, value) ==
    [k \in DOMAIN map \cup {name} |-> IF k = name THEN value ELSE map[k]]

RequestIds == DOMAIN Registry \cup {"petro:unknown"}

\* Values a caller may supply; curve 9 is not served by the loader.
CurveInputs ==
    {Absent, Null, PV("String", 0), PV("String", 1), PV("Number", 4)}
    \cup {PV("Curve", c) : c \in {1, 2, 3, 4, 5, 6, 9}}

NumberInputs ==
    {Absent, Null, PV("String", 0), PV("Curve", 1), PV("Integer", 7),
     PV("Number", NaN)}
    \cup {PV("Number", n) : n \in {-1, 4, 102}}

\* values tried for an optional number without a range
OptionalInputs == {Absent, PV("Number", 4)}

InputValues(def) ==
    IF def.kind = "curve" THEN CurveInputs
    ELSE IF def.default.some /\ ~def.min.some /\ ~def.max.some THEN OptionalInputs
    ELSE NumberInputs

\* the parameter maps giving each of defs[i..] one of its input values
RECURSIVE RequestsFrom(_, _)
RequestsFrom(defs, i) ==
    IF i > Len(defs) THEN {EmptyMap}
    ELSE {MapInsert(p, defs[i].name, v) :
             p \in RequestsFrom(defs, i + 1), v \in InputValues(defs[i])}

Requests(udf_id) ==
    IF ~get_udf(udf_id).some THEN {EmptyMap}
    ELSE RequestsFrom(Registry[udf_id].defs, 1)

(***************************************************************************)
(* compute/registry.rs: UdfRegistry                                         *)
(***************************************************************************)
\* a UDF as the registry sees it: id() and metadata(); `words` are the
\* lower-case fragments of name, description and tags that a search can hit
UdfMeta(id, name, category, words) ==
    [id |-> id, name |-> name, category |-> category, words |-> words]

\* a provider object: `key` tells two objects with one id() apart
Provider(key, id, available, udfs) ==
    [key |-> key, id |-> id, available |-> available, udfs |-> udfs]

PetrophysicsProvider ==
    Provider("PetrophysicsProvider", "petro", TRUE,
        <<UdfMeta("vshale_linear", "VShale (Linear)", "Petrophysics",
                  {"vshale", "shale", "linear"}),
          UdfMeta("vshale_clavier", "VShale (Clavier)", "Petrophysics",
                  {"vshale", "shale", "clavier"}),
          UdfMeta("vshale_steiber", "VShale (Steiber)", "Petrophysics",
                  {"vshale", "shale", "steiber"})>>)

CoreProvider ==
    Provider("CoreProvider", "core", TRUE,
        <<UdfMeta("moving_average", "Moving Average", "Smoothing",
                  {"smooth", "average"}),
          UdfMeta("linear_scale", "Linear Scale", "Transform",
                  {"scale", "linear"}),
          UdfMeta("depth_resample", "Depth Resample", "Transform",
                  {"depth", "resample"})>>)

\* registry.rs tests: a provider without UDFs
TestProvider == Provider("TestProvider", "test", TRUE, <<>>)

\* other implementations of the UdfProvider trait
PluginProvider ==
    Provider("PluginProvider", "plugin", TRUE,
        <<UdfMeta("custom", "Custom", "Plugin", {"custom"})>>)

SecondPetroProvider ==
    Provider("SecondPetroProvider", "petro", TRUE,
        <<UdfMeta("porosity", "Porosity", "Petrophysics", {"porosity"})>>)

UnavailableProvider ==
    Provider("UnavailableProvider", "qc", FALSE,
        <<UdfMeta("despike", "Despike", "Quality", {"despike"})>>)

RepeatingProvider ==
    Provider("RepeatingProvider", "rep", TRUE,
        <<UdfMeta("a", "A", "Other", {"a"}), UdfMeta("b", "B", "Other", {"b"}),
          UdfMeta("a", "A again", "Other", {"a"})>>)

\* "x" + ":" + "y:z" and "x:y" + ":" + "z" are one composite id
OuterProvider ==
    Provider("OuterProvider", "x", TRUE,
        <<UdfMeta("y:z", "YZ", "Other", {"yz"})>>)

InnerProvider ==
    Provider("InnerProvider", "x:y", TRUE,
        <<UdfMeta("w", "W", "Other", {"w"}), UdfMeta("z", "Z", "Other", {"z"})>>)

Providers ==
    {PetrophysicsProvider, CoreProvider, TestProvider, SecondPetroProvider,
     UnavailableProvider, RepeatingProvider, OuterProvider, InnerProvider}

\* UdfRegistry::new
UdfRegistry_new ==
    [providers |-> EmptyMap, udfs |-> EmptyMap, udf_providers |-> EmptyMap]

\* format!("{}:{}", provider_id, udf_id)
full_id(provider_id, udf_id) == provider_id \o ":" \o udf_id

\* the Arc<dyn Udf> that load_udfs returns at position i
UdfObject(provider, i) == [provider |-> provider.key, index |-> i]

\* UdfProvider::is_available
is_available(provider) ==
    IF provider.available THEN NoError
    ELSE Some(UdfError("ProviderNotAvailable",
                       <<"dependencies of ", provider.id, " are missing">>))

RegisterOutcome(r, err, calls) == [registry |-> r, err |-> err, calls |-> calls]

\* Variant of register_udfs: an id that is already there is registered again.
RECURSIVE register_udfs_Overwrites(_, _, _)
register_udfs_Overwrites(r, provider, i) ==
    IF i > Len(provider.udfs)
    THEN RegisterOutcome(
            [r EXCEPT !.providers = MapInsert(@, provider.id, provider.key)],
            NoError, <<"is_available", "load_udfs">>)
    ELSE LET id == full_id(provider.id, provider.udfs[i].id)
         IN register_udfs_Overwrites(
                  [r EXCEPT !.udfs = MapInsert(@, id, UdfObject(provider, i)),
                            !.udf_providers = MapInsert(@, id, provider.id)],
                  provider, i + 1)

\* register_provider, the loop over load_udfs() and the final insert
RECURSIVE register_udfs(_, _, _)
register_udfs(r, provider, i) ==
    IF i > Len(provider.udfs)
    THEN RegisterOutcome(
            [r EXCEPT !.providers = MapInsert(@, provider.id, provider.key)],
            NoError, <<"is_available", "load_udfs">>)
    ELSE LET id == full_id(provider.id, provider.udfs[i].id)
         IN IF id \in DOMAIN r.udfs
            THEN RegisterOutcome(r,
                    Some(UdfError("ProviderNotAvailable",
                                  <<"UDF '", id, "' is already registered">>)),
                    <<"is_available", "load_udfs">>)
            ELSE register_udfs(
                  [r EXCEPT !.udfs = MapInsert(@, id, UdfObject(provider, i)),
                            !.udf_providers = MapInsert(@, id, provider.id)],
                  provider, i + 1)

\* Variant of register_provider: a provider id that is taken is replaced.
register_provider_Replaces(r, provider) ==
    IF is_available(provider).some
    THEN RegisterOutcome(r, is_available(provider), <<"is_available">>)
    ELSE register_udfs(r, provider, 1)

\* Variant of register_provider: the UDFs are loaded before is_available.
register_provider_LoadsFirst(r, provider) ==
    IF is_available(provider).some
    THEN RegisterOutcome(r, is_available(provider), <<"load_udfs", "is_available">>)
    ELSE IF provider.id \in DOMAIN r.providers
    THEN RegisterOutcome(r,
            Some(UdfError("ProviderNotAvailable",
                          <<"Provider '", provider.id, "' is already registered">>)),
            <<"is_available">>)
    ELSE register_udfs(r, provider, 1)

\* Variant of register_provider: the provider itself is not recorded.
register_provider_ForgetsProvider(r, provider) ==
    IF is_available(provider).some
    THEN RegisterOutcome(r, is_available(provider), <<"is_available">>)
    ELSE IF provider.id \in DOMAIN r.providers
    THEN RegisterOutcome(r,
            Some(UdfError("ProviderNotAvailable",
                          <<"Provider '", provider.id, "' is already registered">>)),
            <<"is_available">>)
    ELSE LET out == register_udfs(r, provider, 1)
         IN [out EXCEPT !.registry.providers = r.providers]

\* UdfRegistry::register_provider
register_provider(r, provider) ==
    IF is_available(provider).some
    THEN RegisterOutcome(r, is_available(provider), <<"is_available">>)
    ELSE IF provider.id \in DOMAIN r.providers
    THEN RegisterOutcome(r,
            Some(UdfError("ProviderNotAvailable",
                          <<"Provider '", provider.id, "' is already registered">>)),
            <<"is_available">>)
    ELSE register_udfs(r, provider, 1)

\* UdfRegistry::get_udf, get_provider, get_udf_provider
registry_get_udf(r, id) ==
    IF id \in DOMAIN r.udfs THEN Some(r.udfs[id]) ELSE None(UdfObject(TestProvider, 0))

get_provider(r, provider_id) ==
    IF provider_id \in DOMAIN r.providers THEN Some(r.providers[provider_id])
    ELSE None("")

get_udf_provider(r, id) ==
    IF id \in DOMAIN r.udf_providers THEN get_provider(r, r.udf_providers[id])
    ELSE None("")

udf_count(r) == Cardinality(DOMAIN r.udfs)
provider_count(r) == Cardinality(DOMAIN r.providers)

count_provider_udfs(r, provider_id) ==
    Cardinality({id \in DOMAIN r.udf_providers : r.udf_providers[id] = provider_id})

ProviderByKey(key) == CHOOSE p \in Providers \cup {PluginProvider} : p.key = key

\* the listings are Vecs in HashMap order; the model keeps their elements
list_providers(r) ==
    {[id |-> ProviderByKey(r.providers[pid]).id,
      udf_count |-> count_provider_udfs(r, ProviderByKey(r.providers[pid]).id)] :
        pid \in DOMAIN r.providers}

UdfInfo(r, id) ==
    LET meta == ProviderByKey(r.udfs[id].provider).udfs[r.udfs[id].index]
    IN [full_id |-> id,
        provider_id |-> IF id \in DOMAIN r.udf_providers
                        THEN r.udf_providers[id] ELSE "",
        name |-> meta.name, category |-> meta.category, words |-> meta.words]

list_udfs(r) == {UdfInfo(r, id) : id \in DOMAIN r.udfs}

list_provider_udfs(r, provider_id) ==
    {u \in list_udfs(r) : u.provider_id = provider_id}

\* str::to_lowercase / eq_ignore_ascii_case on the texts the model uses
to_lowercase(text) ==
    CASE text = "Petrophysics" -> "petrophysics"
      [] text = "PETROPHYSICS" -> "petrophysics"
      [] text = "Transform" -> "transform"
      [] text = "Smoothing" -> "smoothing"
      [] text = "Quality" -> "quality"
      [] text = "Other" -> "other"
      [] text = "Plugin" -> "plugin"
      [] text = "Shale" -> "shale"
      [] OTHER -> text

list_udfs_by_category(r, category) ==
    {u \in list_udfs(r) : to_lowercase(u.category) = to_lowercase(category)}

search_udfs(r, query) ==
    LET query_lower == to_lowercase(query)
    IN {u \in list_udfs(r) : query_lower \in u.words}

\* the registry the engine of the model was built with
RECURSIVE register_all(_, _, _)
register_all(r, providers, i) ==
    IF i > Len(providers) THEN r
    ELSE register_all(register_provider(r, providers[i]).registry, providers, i + 1)

BuiltRegistry ==
    register_all(UdfRegistry_new,
                 <<PetrophysicsProvider, CoreProvider, PluginProvider>>, 1)

NoRegistration ==
    [op |-> "", provider |-> "", ok |-> FALSE, err |-> NoError, calls |-> <<>>,
     before |-> UdfRegistry_new]

NoListing == [op |-> "", arg |-> "", found |-> FALSE, result |-> {}]

(***************************************************************************)
(* compute/output_writer.rs: OutputWriter and the blob store                *)
(***************************************************************************)
OutputCurveData(mnemonic, depths, values) ==
    [mnemonic |-> mnemonic, depths |-> depths, values |-> values]

\* OutC differs from OutA in its mnemonic only, which is not serialized
OutA == OutputCurveData("VSH", <<100, 101>>, <<Some(1), None(0)>>)
OutB == OutputCurveData("VSH", <<100>>, <<Some(2)>>)
OutC == OutputCurveData("VSH_CLAVIER", <<100, 101>>, <<Some(1), None(0)>>)
Outputs == {OutA, OutB, OutC}

RECURSIVE csv_rows(_, _)
csv_rows(curve, i) ==
    IF i > Len(curve.depths) \/ i > Len(curve.values) THEN <<>>
    ELSE (IF curve.values[i].some
          THEN <<ToString(curve.depths[i]), ",", ToString(curve.values[i].v), "EOL">>
          ELSE <<ToString(curve.depths[i]), ",", "EOL">>)
         \o csv_rows(curve, i + 1)

\* OutputWriter::create_parquet_bytes
create_parquet_bytes(curve) == <<"depth,value", "EOL">> \o csv_rows(curve, 1)

\* Sha256 in hex, two digits per element: different bytes, different digests
Sha256Hex(bytes) ==
    CASE bytes = <<"depth,value", "EOL", "100", ",", "1", "EOL", "101", ",", "EOL">>
            -> <<"3f", "a9", "c1">>
      [] bytes = <<"depth,value", "EOL", "100", ",", "2", "EOL">>
            -> <<"3f", "5e", "22">>
      [] OTHER -> <<"00", "00", "00">>

HexText(hash) == hash[1] \o hash[2] \o hash[3]

\* blobs_dir.join(&hash[..2]).join(&hash[2..4]).join(format!("{}.parquet", hash))
blob_path_of(hash) ==
    [dir |-> <<hash[1], hash[2]>>, stem |-> HexText(hash), ext |-> "parquet"]

\* Path::with_extension
with_extension(path, ext) == [path EXCEPT !.ext = ext]

\* a file is written in two blocks; a block not written yet reads as a hole
Blocks(bytes) == <<SubSeq(bytes, 1, 2), SubSeq(bytes, 3, Len(bytes))>>
Hole == <<"hole">>

EmptyStore == [dirs |-> {}, names |-> EmptyMap, data |-> EmptyMap]

exists(store, path) == path \in DOMAIN store.names

\* fs::create_dir_all(parent)
create_dir_all(store, dir) ==
    [store EXCEPT !.dirs = @ \cup {SubSeq(dir, 1, n) : n \in 1..Len(dir)}]

\* File::create: a new file, or the file of that name cut to length 0
NewInode(store) == Cardinality(DOMAIN store.data) + 1

file_create(store, path) ==
    IF exists(store, path)
    THEN [store EXCEPT !.data = MapInsert(@, store.names[path], <<>>)]
    ELSE [store EXCEPT !.names = MapInsert(@, path, NewInode(store)),
                       !.data = MapInsert(@, NewInode(store), <<>>)]

\* write at an offset through an open file; the gap before it reads as holes
write_at(store, inode, offset, block) ==
    LET old == store.data[inode]
        len == IF Len(old) > offset + 1 THEN Len(old) ELSE offset + 1
    IN [store EXCEPT !.data = MapInsert(@, inode,
           [i \in 1..len |-> IF i = offset + 1 THEN block
                             ELSE IF i <= Len(old) THEN old[i] ELSE Hole])]

MapRemove(map, name) == [k \in DOMAIN map \ {name} |-> map[k]]

\* fs::rename(from, to) and fs::remove_file(path), when they succeed
rename(store, from, to) ==
    [store EXCEPT !.names = MapInsert(MapRemove(@, from), to, store.names[from])]

remove_file(store, path) == [store EXCEPT !.names = MapRemove(@, path)]

\* what a path holds
Contents(store, path) == store.data[store.names[path]]

IoError(what) == UdfError("IoError", <<what>>)

WriteOk(hash, path) == [ok |-> TRUE, hash |-> hash, path |-> path, err |-> NoError]
WriteErr(e) ==
    [ok |-> FALSE, hash |-> <<>>, path |-> blob_path_of(<<"", "", "">>), err |-> Some(e)]

Writers == {1, 2}

\* calls of write_parquet_blob each caller makes
MaxWrites == 2

IdleWriter ==
    [pc |-> "idle", calls |-> 0, output |-> OutA, bytes |-> <<>>, hash |-> <<>>,
     fd |-> 0, offset |-> 0, second |-> FALSE, faulted |-> FALSE,
     result |-> WriteOk(<<>>, blob_path_of(<<"", "", "">>))]

\* f64::INFINITY and f64::NEG_INFINITY on the scale of the samples
Infinity == 2000
NegInfinity == 0 - 2000

\* f64::min and f64::max: a NaN operand gives the other operand
f64_min(a, b) == IF a = NaN THEN b ELSE IF b = NaN THEN a ELSE IF a < b THEN a ELSE b
f64_max(a, b) == IF a = NaN THEN b ELSE IF b = NaN THEN a ELSE IF a > b THEN a ELSE b

RECURSIVE valid_values(_)
valid_values(values) ==
    IF Len(values) = 0 THEN <<>>
    ELSE (IF Head(values).some THEN <<Head(values).v>> ELSE <<>>)
         \o valid_values(Tail(values))

RECURSIVE fold_min(_, _)
fold_min(acc, xs) ==
    IF Len(xs) = 0 THEN acc ELSE fold_min(f64_min(acc, Head(xs)), Tail(xs))

RECURSIVE fold_max(_, _)
fold_max(acc, xs) ==
    IF Len(xs) = 0 THEN acc ELSE fold_max(f64_max(acc, Head(xs)), Tail(xs))

\* the provenance record, as far as commit_execution reads and writes it
ExecutionRecord(id, curve_id, parquet_hash) ==
    [id |-> id, output_curve_id |-> curve_id, output_parquet_hash |-> parquet_hash]

NoUuid == None(0)
NoHash == None(<<>>)

\* a record fresh from ExecutionRecord::new, and one that a commit has stamped
Records ==
    {ExecutionRecord("e1", NoUuid, NoHash),
     ExecutionRecord("e2", NoUuid, NoHash),
     ExecutionRecord("e3", Some(9), Some(<<"77", "77", "77">>))}

WellIds == {"well-1"}

\* Uuid::new_v4(): an id no row carries
new_v4(rows) == 101 + Len(rows)

\* the row register_curve inserts
CurveRow(rows, well_id, curve, parquet_hash, execution_record) ==
    LET valid == valid_values(curve.values)
    IN [id |-> new_v4(rows),
        well_id |-> well_id,
        mnemonic |-> curve.mnemonic,
        min_depth |-> IF Len(curve.depths) = 0 THEN None(0) ELSE Some(Head(curve.depths)),
        max_depth |-> IF Len(curve.depths) = 0 THEN None(0)
                      ELSE Some(curve.depths[Len(curve.depths)]),
        row_count |-> Len(curve.depths),
        min_value |-> IF Len(valid) = 0 THEN None(0) ELSE Some(fold_min(Infinity, valid)),
        max_value |-> IF Len(valid) = 0 THEN None(0) ELSE Some(fold_max(NegInfinity, valid)),
        parquet_hash |-> parquet_hash,
        version |-> 1,
        is_derived |-> TRUE,
        source_execution_id |-> execution_record.id]

RegisteredOutput(curve_id, parquet_hash, path) ==
    [ok |-> TRUE, curve_id |-> curve_id, parquet_hash |-> parquet_hash,
     blob_path |-> path, err |-> NoError]

CommitErr(e) ==
    [ok |-> FALSE, curve_id |-> 0, parquet_hash |-> <<>>,
     blob_path |-> blob_path_of(<<"", "", "">>), err |-> e]

IdleCommit ==
    [pc |-> "idle", calls |-> 0, well_id |-> "", output |-> OutA,
     record |-> ExecutionRecord("", NoUuid, NoHash),
     before |-> ExecutionRecord("", NoUuid, NoHash),
     parquet_hash |-> <<>>, blob_path |-> blob_path_of(<<"", "", "">>),
     steps |-> <<>>, result |-> CommitErr(NoError)]

(***************************************************************************)
(* commands.rs: ActiveExecutions, execute_udf and the out-of-band commands  *)
(***************************************************************************)
\* ProgressState::new(): progress 0, no message
NewProgress == [progress |-> 0, message |-> None("")]

EmptyHeap == [tokens |-> EmptyMap, progress |-> EmptyMap, arcs |-> 0, uuids |-> 0]

\* Arc::new(CancellationToken::new()) and Arc::new(ProgressState::new())
NewToken(h) == h.arcs + 1
NewProgressState(h) == h.arcs + 1

AllocToken(h) ==
    [h EXCEPT !.tokens = MapInsert(@, NewToken(h), FALSE), !.arcs = @ + 1]
AllocProgress(h) ==
    [h EXCEPT !.progress = MapInsert(@, NewProgressState(h), NewProgress), !.arcs = @ + 1]

\* the last Arc to a token and to a progress state goes out of scope
DropArcs(h, token, state) ==
    [h EXCEPT !.tokens = MapRemove(@, token), !.progress = MapRemove(@, state)]

\* Uuid::new_v4(): a value not drawn before
NextUuid(h) == h.uuids + 1
DrawUuid(h) == [h EXCEPT !.uuids = @ + 1]

\* percent.clamp(0.0, 100.0) as u8
clamp_percent(percent) ==
    IF percent = NaN THEN 0
    ELSE IF percent < 0 THEN 0 ELSE IF percent > 100 THEN 100 ELSE percent

\* ProgressState::set_progress and set_progress_with_message
set_progress(state, percent) == [state EXCEPT !.progress = clamp_percent(percent)]
set_progress_with_message(state, percent, message) ==
    [set_progress(state, percent) EXCEPT !.message = Some(message)]

ExecuteUdfRequest(udf_id, well_id) == [udf_id |-> udf_id, well_id |-> well_id]

UdfRequests ==
    {ExecuteUdfRequest(udf_id, well_id) :
        udf_id \in {"plugin:custom", "nope:missing"},
        well_id \in {"well-1", "not-a-uuid"}}

Percents == {50, 150}

Callers == {1, 2}

\* calls of execute_udf each caller makes
MaxCalls == 1

NoUdfResult ==
    [ok |-> FALSE, success |-> FALSE, execution_id |-> 0, error |-> ""]

IdleCall ==
    [pc |-> "idle", calls |-> 0, request |-> ExecuteUdfRequest("", ""),
     execution_id |-> 0, cancel_token |-> 0, progress_state |-> 0,
     record_id |-> 0, context_token |-> 0, context_progress |-> 0,
     check |-> "", guard |-> "", result |-> NoUdfResult]

\* ExecutionProgress, the answer of get_execution_progress and of the listing
ExecutionProgress(id, entry, h) ==
    [execution_id |-> id,
     progress |-> h.progress[entry.progress_state].progress,
     message |-> h.progress[entry.progress_state].message,
     is_cancelled |-> h.tokens[entry.cancel_token]]

NoObservation == [op |-> "", execution_id |-> 0, found |-> FALSE, answer |-> <<>>]

(***************************************************************************)
(* compute/data_loader.rs: DataForgeCurveLoader                             *)
(***************************************************************************)
\* a row of a parquet blob: the depth column and the value column, each nullable
Row(depth, value) == [depth |-> depth, value |-> value]

\* ORDER BY depth: ascending, NULL depths last
RowBefore(a, b) == a.depth.some /\ (~b.depth.some \/ a.depth.v <= b.depth.v)

RECURSIVE insert_row(_, _)
insert_row(row, sorted) ==
    IF Len(sorted) = 0 THEN <<row>>
    ELSE IF RowBefore(row, Head(sorted)) THEN <<row>> \o sorted
    ELSE <<Head(sorted)>> \o insert_row(row, Tail(sorted))

RECURSIVE order_by_depth(_)
order_by_depth(rows) ==
    IF Len(rows) = 0 THEN <<>>
    ELSE insert_row(rows[Len(rows)], order_by_depth(SubSeq(rows, 1, Len(rows) - 1)))

\* a row of the curves table joined with its blob
CurveRecord(mnemonic, hash, version, well_id, property_id, stored, rows) ==
    [mnemonic |-> mnemonic, parquet_hash |-> hash, version |-> version,
     well_id |-> well_id, property_id |-> property_id, stored |-> stored, rows |-> rows]

\* the curves of the database: 11, 12 and 13 belong to one well; 12 has as many
\* samples as 11 at other depths, 13 has fewer; 14 is stored out of depth order
\* with a NULL depth; 15 has no hash, the blob of 16 is missing, the well id of
\* 17 is no UUID
Curves ==
    [id \in 11..17 |->
        CASE id = 11 -> CurveRecord("GR", Some("aa11"), 1, "well-1", Some("gamma_ray"), TRUE,
                            <<Row(Some(100), Some(10)), Row(Some(101), None(0)),
                              Row(Some(102), Some(30))>>)
          [] id = 12 -> CurveRecord("RHOB", Some("bb12"), 2, "well-1", None(""), TRUE,
                            <<Row(Some(200), Some(2)), Row(Some(201), Some(3)),
                              Row(Some(202), Some(4))>>)
          [] id = 13 -> CurveRecord("DT", Some("cc13"), 1, "well-1", Some("shear_slowness"),
                            TRUE,
                            <<Row(Some(100), Some(7)), Row(Some(101), Some(8))>>)
          [] id = 14 -> CurveRecord("XYZ", Some("dd14"), 3, "well-2", None(""), TRUE,
                            <<Row(Some(302), Some(1)), Row(None(0), Some(2)),
                              Row(Some(300), None(0))>>)
          [] id = 15 -> CurveRecord("GR", None(""), 1, "well-1", None(""), FALSE, <<>>)
          [] id = 16 -> CurveRecord("GR", Some("ee16"), 1, "well-1", None(""), FALSE, <<>>)
          [] id = 17 -> CurveRecord("GR", Some("ff17"), 1, "not-a-uuid", None(""), TRUE,
                            <<Row(Some(100), Some(1))>>)]

\* ids asked of the loader; 18 is in no table
CurveIds == 11..18

property_id_to_curve_type_code(property_id) ==
    CASE property_id = "gamma_ray" -> "GR"
      [] property_id = "bulk_density" -> "RHOB"
      [] property_id = "neutron_porosity" -> "NPHI"
      [] property_id \in {"deep_resistivity", "medium_resistivity", "shallow_resistivity"}
            -> "RT"
      [] property_id = "caliper" -> "CALI"
      [] property_id \in {"compressional_slowness", "shear_slowness"} -> "DT"
      [] property_id = "spontaneous_potential" -> "SP"
      [] property_id = "photoelectric" -> "PE"
      [] property_id = "depth" -> "DEPTH"
      [] OTHER -> "OTHER"

from_main_curve_type(mct) ==
    CASE mct = "GR" -> "GammaRay"
      [] mct = "RHOB" -> "Density"
      [] mct = "NPHI" -> "NeutronPorosity"
      [] mct = "RT" -> "Resistivity"
      [] mct = "CALI" -> "Caliper"
      [] mct = "DT" -> "Sonic"
      [] mct = "SP" -> "SpontaneousPotential"
      [] mct = "PE" -> "PhotoelectricFactor"
      [] mct = "DEPTH" -> "Depth"
      [] OTHER -> "Unknown"

\* the stored type when there is one, else the substring tests on the mnemonic
detect_curve_type(mnemonic, main_curve_type) ==
    IF main_curve_type.some THEN from_main_curve_type(main_curve_type.v)
    ELSE CASE mnemonic = "GR" -> "GammaRay"
           [] mnemonic = "RHOB" -> "Density"
           [] mnemonic = "DT" -> "Sonic"
           [] OTHER -> "Unknown"

\* Arc<Vec<f64>>: the allocation and what it holds
Arc(ptr, v) == [ptr |-> ptr, v |-> v]

LoadedCurve(curve_id, rec, depths_arc, values) ==
    [ok |-> TRUE, curve_id |-> curve_id, mnemonic |-> rec.mnemonic,
     curve_type |-> detect_curve_type(rec.mnemonic,
                       IF rec.property_id.some
                       THEN Some(property_id_to_curve_type_code(rec.property_id.v))
                       ELSE None("")),
     depths |-> depths_arc, values |-> values,
     parquet_hash |-> rec.parquet_hash.v, version |-> rec.version, err |-> ""]

CurveLoadError(curve_id, text) ==
    [ok |-> FALSE, curve_id |-> curve_id, mnemonic |-> "", curve_type |-> "Unknown",
     depths |-> Arc(0, <<>>), values |-> <<>>, parquet_hash |-> "", version |-> 0,
     err |-> text]

\* the depth and value vectors the row loop pushes
read_depths(rows) == [i \in 1..Len(rows) |-> IF rows[i].depth.some THEN rows[i].depth.v ELSE 0]
read_values(rows) == [i \in 1..Len(rows) |-> rows[i].value]

\* the variant that serves the cached depths whatever their length
share_depths_Always(cache, well_id, depths, ptr) ==
    IF well_id \in DOMAIN cache THEN [arc |-> cache[well_id], cache |-> cache]
    ELSE [arc |-> Arc(ptr, depths), cache |-> MapInsert(cache, well_id, Arc(ptr, depths))]

\* the depth array is shared with the well's cached one when the lengths agree
share_depths(cache, well_id, depths, ptr) ==
    IF well_id \in DOMAIN cache /\ Len(cache[well_id].v) = Len(depths)
    THEN [arc |-> cache[well_id], cache |-> cache]
    ELSE [arc |-> Arc(ptr, depths), cache |-> MapInsert(cache, well_id, Arc(ptr, depths))]

\* DataForgeCurveLoader::load_curve: the result and the cache after it
DataForge_load_curve(cache, curve_id, ptr) ==
    IF curve_id \notin DOMAIN Curves
    THEN [result |-> CurveLoadError(curve_id, "Curve not found"), cache |-> cache]
    ELSE LET rec == Curves[curve_id]
             rows == order_by_depth(rec.rows)
             shared == share_depths(cache, rec.well_id, read_depths(rows), ptr)
         IN IF ~rec.parquet_hash.some
            THEN [result |-> CurveLoadError(curve_id, "Curve has no data"), cache |-> cache]
            ELSE IF ~rec.stored
            THEN [result |-> CurveLoadError(curve_id, "Parquet blob not found"),
                  cache |-> cache]
            ELSE IF rec.well_id = "not-a-uuid"
            THEN [result |-> CurveLoadError(curve_id, "Invalid well UUID"), cache |-> cache]
            ELSE [result |-> LoadedCurve(curve_id, rec, shared.arc, read_values(rows)),
                  cache |-> shared.cache]

\* calls of load_curve in a run
MaxLoads == 3

(***************************************************************************)
(* State                                                                    *)
(***************************************************************************)
BlankRecord ==
    [udf_id |-> "", udf_version |-> "", inputs |-> <<>>, status |-> "Failed",
     completed_at |-> FALSE, error_message |-> None(<<>>),
     output_curve_id |-> None(0), output_parquet_hash |-> None(<<>>)]

NoContext ==
    [built |-> FALSE, curves |-> EmptyMap, input_refs |-> <<>>, cancelled |-> FALSE,
     parameters |-> EmptyMap]

NoResult == [kind |-> "none", output |-> FALSE, err |-> NoError]

NoValidateOnly ==
    [called |-> FALSE, udf_id |-> "", ok |-> FALSE, errors |-> <<>>, calls |-> <<>>]

NoWrites == [records |-> 0, status |-> 0, completed_at |-> 0]

Event(op, arg) == [op |-> op, arg |-> arg]

NoHookCall ==
    [udf |-> "", values |-> <<>>, parameters |-> EmptyMap, output |-> <<>>,
     warnings |-> <<>>, returned |-> FALSE]

Init ==
    /\ pc = "idle"
    /\ req = [udf_id |-> "", parameters |-> EmptyMap]
    /\ record = None(BlankRecord)
    /\ result = NoResult
    /\ stage2 = None(<<>>)
    /\ loadIdx = 0
    /\ builder = EmptyMap
    /\ ctx = NoContext
    /\ raised = NoError
    /\ output = FALSE
    /\ trace = <<>>
    /\ writes = NoWrites
    /\ vo = NoValidateOnly
    /\ registry = BuiltRegistry
    /\ reg = NoRegistration
    /\ listing = NoListing
    /\ fs = EmptyStore
    /\ wr = [w \in Writers |-> IdleWriter]
    /\ written = EmptyMap
    /\ db = <<>>
    /\ cm = IdleCommit
    /\ active = EmptyMap
    /\ heap = EmptyHeap
    /\ call = [c \in Callers |-> IdleCall]
    /\ mutex = 0
    /\ obs = NoObservation
    /\ depth_cache = EmptyMap
    /\ loads = <<>>
    /\ arcs = 0
    /\ hook = NoHookCall

Udf == Registry[req.udf_id]

\* `return Err(e)` / `?` inside execute_inner
Abort(e) ==
    /\ raised' = Some(e)
    /\ pc' = "failed"

(***************************************************************************)
(* ExecutionEngine::execute, engine.rs:54-86: resolve and create the record *)
(***************************************************************************)
Execute(udf_id, parameters) ==
    /\ pc = "idle"
    /\ req' = [udf_id |-> udf_id, parameters |-> parameters]
    /\ trace' = <<Event("resolve", udf_id)>>
    /\ IF get_udf(udf_id).some
       THEN /\ record' = Some([BlankRecord EXCEPT
                                  !.udf_id = udf_id,
                                  !.udf_version = get_udf(udf_id).v.version,
                                  !.status = "Failed"])
            /\ writes' = [records |-> 1, status |-> 1, completed_at |-> 0]
            /\ pc' = "validate"
            /\ UNCHANGED result
       ELSE /\ result' = [kind |-> "Err", output |-> FALSE,
                          err |-> Some(UdfError("UdfNotFound", <<udf_id>>))]
            /\ pc' = "done"
            /\ UNCHANGED <<record, writes>>
    /\ UNCHANGED <<stage2, loadIdx, builder, ctx, raised, output, vo>>
    /\ UNCHANGED outsideEngine

(***************************************************************************)
(* execute_inner, engine.rs:131-144: parameter definition validation        *)
(***************************************************************************)
ValidateParameters ==
    /\ pc = "validate"
    /\ LET validation_errors == validate_parameters(Udf.defs, req.parameters)
       IN /\ stage2' = Some(validation_errors)
          /\ trace' = Append(trace, Event("validate_parameters", ""))
          /\ IF Len(validation_errors) # 0
             THEN /\ Abort(ParameterValidationError(validation_errors))
                  /\ UNCHANGED <<loadIdx, builder>>
             ELSE /\ pc' = "load"
                  /\ loadIdx' = 1
                  /\ builder' = EmptyMap
                  /\ UNCHANGED raised
    /\ UNCHANGED <<req, record, result, ctx, output, writes, vo>>
    /\ UNCHANGED outsideEngine

(***************************************************************************)
(* execute_inner, engine.rs:150-165: one iteration of the loading loop      *)
(***************************************************************************)
LoadCurve ==
    /\ pc = "load"
    /\ loadIdx <= Len(Udf.defs)
    /\ LET def == Udf.defs[loadIdx]
           value == MapGet(req.parameters, def.name)
           bound == param_type(def) = "curve" /\ value.some /\ as_curve(value.v).some
           loaded == load_curve(as_curve(value.v).v)
           mismatch == validate_curve_type(def, loaded.curve)
       IN IF ~bound
          THEN /\ loadIdx' = loadIdx + 1
               /\ UNCHANGED <<pc, builder, raised, trace>>
          ELSE IF ~loaded.ok
          THEN /\ trace' = Append(trace, Event("load_curve", def.name))
               /\ Abort(loaded.err)
               /\ UNCHANGED <<loadIdx, builder>>
          ELSE IF mismatch.some
          THEN /\ trace' = trace \o <<Event("load_curve", def.name),
                                      Event("validate_curve_type", def.name)>>
               /\ Abort(mismatch.v)
               /\ UNCHANGED <<loadIdx, builder>>
          ELSE /\ trace' = trace \o <<Event("load_curve", def.name),
                                      Event("validate_curve_type", def.name)>>
               /\ builder' = [n \in DOMAIN builder \cup {def.name} |->
                                IF n = def.name THEN loaded.curve.curve_id
                                ELSE builder[n]]
               /\ loadIdx' = loadIdx + 1
               /\ UNCHANGED <<pc, raised>>
    /\ UNCHANGED <<req, record, result, stage2, ctx, output, writes, vo>>
    /\ UNCHANGED outsideEngine

(***************************************************************************)
(* ExecutionContextBuilder::build, context.rs:391-415 (engine.rs:167)       *)
(***************************************************************************)
\* the variant that records no version
InputReference_Unversioned(curve) ==
    [curve_id |-> curve.curve_id, version |-> 0,
     parquet_hash |-> curve.parquet_hash]

InputReference(curve) ==
    [curve_id |-> curve.curve_id, version |-> curve.version,
     parquet_hash |-> curve.parquet_hash]

BuildContext ==
    /\ pc = "load"
    /\ loadIdx > Len(Udf.defs)
    /\ \E order \in Orders(DOMAIN builder) :
          ctx' = [built |-> TRUE,
                  curves |-> builder,
                  input_refs |-> [i \in 1..Len(order) |->
                                     InputReference(CurveStore[builder[order[i]]])],
                  cancelled |-> FALSE,
                  parameters |-> req.parameters]
    /\ pc' = "depth"
    /\ UNCHANGED <<req, record, result, stage2, loadIdx, builder, raised, output,
                   trace, writes, vo>>
    /\ UNCHANGED outsideEngine

(***************************************************************************)
(* execute_inner, engine.rs:169-170: depth compatibility                    *)
(***************************************************************************)
ValidateDepth ==
    /\ pc = "depth"
    /\ trace' = Append(trace, Event("validate_depth_compatibility", ""))
    /\ \E order \in Orders(DOMAIN ctx.curves) :
          LET r == validate_depth_compatibility(order, ctx.curves)
          IN IF r.some THEN Abort(r.v)
             ELSE pc' = "check_parameters" /\ UNCHANGED raised
    /\ UNCHANGED <<req, record, result, stage2, loadIdx, builder, ctx, output,
                   writes, vo>>
    /\ UNCHANGED outsideEngine

(***************************************************************************)
(* execute_inner, engine.rs:172-198: the UDF hooks                          *)
(***************************************************************************)
CheckParameters ==
    /\ pc = "check_parameters"
    /\ \E errors \in check_parameters(Udf, ctx, req.parameters) :
          IF Len(errors) # 0
          THEN /\ trace' = Append(trace, Event("check_parameters", "errors"))
               /\ Abort(ParameterValidationError(errors))
          ELSE /\ trace' = Append(trace, Event("check_parameters", "ok"))
               /\ pc' = "can_execute"
               /\ UNCHANGED raised
    /\ UNCHANGED <<req, record, result, stage2, loadIdx, builder, ctx, output,
                   writes, vo>>
    /\ UNCHANGED outsideEngine

\* Variant of CanExecute: a false result is noted but the pipeline goes on.
CanExecute_Continues ==
    /\ pc = "can_execute"
    /\ \E can \in can_execute(Udf, ctx) :
       /\ trace' = Append(trace, Event("can_execute", IF can THEN "true" ELSE "false"))
       /\ IF ~can
          THEN /\ raised' = Some(UdfError("PreCheckFailed",
                                 <<"UDF cannot execute in current context">>))
               /\ pc' = "prepare"
          ELSE pc' = "prepare" /\ UNCHANGED raised
    /\ UNCHANGED <<req, record, result, stage2, loadIdx, builder, ctx, output,
                   writes, vo>>
    /\ UNCHANGED outsideEngine

CanExecute ==
    /\ pc = "can_execute"
    /\ \E can \in can_execute(Udf, ctx) :
       /\ trace' = Append(trace, Event("can_execute", IF can THEN "true" ELSE "false"))
       /\ IF ~can
          THEN Abort(UdfError("PreCheckFailed",
                              <<"UDF cannot execute in current context">>))
          ELSE pc' = "prepare" /\ UNCHANGED raised
    /\ UNCHANGED <<req, record, result, stage2, loadIdx, builder, ctx, output,
                   writes, vo>>
    /\ UNCHANGED outsideEngine

\* Variant of Prepare: the boolean gate is not looked at.
Prepare_IgnoresGate ==
    /\ pc = "prepare"
    /\ \E r \in prepare(Udf, ctx) :
       /\ trace' = Append(trace, Event("prepare", IF ~r.ok THEN "error"
                                                  ELSE IF r.v THEN "true" ELSE "false"))
       /\ IF ~r.ok THEN Abort(r.err)
          ELSE pc' = "execute" /\ UNCHANGED raised
    /\ UNCHANGED <<req, record, result, stage2, loadIdx, builder, ctx, output,
                   writes, vo>>
    /\ UNCHANGED outsideEngine

Prepare ==
    /\ pc = "prepare"
    /\ \E r \in prepare(Udf, ctx) :
       /\ trace' = Append(trace, Event("prepare", IF ~r.ok THEN "error"
                                                  ELSE IF r.v THEN "true" ELSE "false"))
       /\ IF ~r.ok THEN Abort(r.err)
          ELSE IF ~r.v
          THEN Abort(UdfError("PreCheckFailed", <<"Pre-execution check failed">>))
          ELSE pc' = "execute" /\ UNCHANGED raised
    /\ UNCHANGED <<req, record, result, stage2, loadIdx, builder, ctx, output,
                   writes, vo>>
    /\ UNCHANGED outsideEngine

ExecuteHook ==
    /\ pc = "execute"
    /\ trace' = Append(trace, Event("execute", ""))
    /\ \E r \in execute_hook(Udf, ctx, req.parameters) :
          IF ~r.ok /\ r.err.kind = "panic"
          THEN pc' = "panicked" /\ UNCHANGED <<raised, output>>
          ELSE IF ~r.ok THEN Abort(r.err) /\ UNCHANGED output
          ELSE pc' = "postprocess" /\ output' = TRUE /\ UNCHANGED raised
    /\ UNCHANGED <<req, record, result, stage2, loadIdx, builder, ctx, writes, vo>>
    /\ UNCHANGED outsideEngine

\* Variant of Postprocess: a failed postprocess still hands the output back.
Postprocess_KeepsOutput ==
    /\ pc = "postprocess"
    /\ trace' = Append(trace, Event("postprocess", ""))
    /\ \E r \in postprocess(Udf, ctx) :
          IF ~r.ok
          THEN /\ record' = Some([record.v EXCEPT
                                     !.completed_at = TRUE,
                                     !.error_message = Some(ErrorText(r.err))])
               /\ writes' = [writes EXCEPT !.completed_at = @ + 1]
               /\ raised' = Some(r.err)
               /\ result' = [kind |-> "Ok", output |-> output, err |-> NoError]
               /\ UNCHANGED output
          ELSE /\ record' = Some([record.v EXCEPT
                                     !.inputs = ctx.input_refs,
                                     !.status = "Completed",
                                     !.completed_at = TRUE])
               /\ writes' = [writes EXCEPT !.status = @ + 1,
                                           !.completed_at = @ + 1]
               /\ result' = [kind |-> "Ok", output |-> output, err |-> NoError]
               /\ UNCHANGED <<raised, output>>
    /\ pc' = "done"
    /\ UNCHANGED <<req, stage2, loadIdx, builder, ctx, vo>>
    /\ UNCHANGED outsideEngine

(***************************************************************************)
(* execute, engine.rs:90-110: postprocess and the success arm               *)
(***************************************************************************)
Postprocess ==
    /\ pc = "postprocess"
    /\ trace' = Append(trace, Event("postprocess", ""))
    /\ \E r \in postprocess(Udf, ctx) :
          IF ~r.ok
          THEN /\ record' = Some([record.v EXCEPT
                                     !.completed_at = TRUE,
                                     !.error_message = Some(ErrorText(r.err))])
               /\ writes' = [writes EXCEPT !.completed_at = @ + 1]
               /\ raised' = Some(r.err)
               /\ output' = FALSE
               /\ result' = [kind |-> "Ok", output |-> FALSE, err |-> NoError]
          ELSE /\ record' = Some([record.v EXCEPT
                                     !.inputs = ctx.input_refs,
                                     !.status = "Completed",
                                     !.completed_at = TRUE])
               /\ writes' = [writes EXCEPT !.status = @ + 1,
                                           !.completed_at = @ + 1]
               /\ result' = [kind |-> "Ok", output |-> output, err |-> NoError]
               /\ UNCHANGED <<raised, output>>
    /\ pc' = "done"
    /\ UNCHANGED <<req, stage2, loadIdx, builder, ctx, vo>>
    /\ UNCHANGED outsideEngine

\* Variant of RecordFailure: the error is handed to the caller as Err(e).
RecordFailure_ErrorEscapes ==
    /\ pc = "failed"
    /\ result' = [kind |-> "Err", output |-> FALSE, err |-> raised]
    /\ pc' = "done"
    /\ UNCHANGED <<req, record, writes, stage2, loadIdx, builder, ctx, raised,
                   output, trace, vo>>
    /\ UNCHANGED outsideEngine

\* Variant of RecordFailure: the failure arm marks the record Completed.
RecordFailure_Completes ==
    /\ pc = "failed"
    /\ record' = Some([record.v EXCEPT
                          !.status = "Completed",
                          !.completed_at = TRUE,
                          !.error_message = Some(ErrorText(raised.v))])
    /\ writes' = [writes EXCEPT !.status = @ + 1, !.completed_at = @ + 1]
    /\ result' = [kind |-> "Ok", output |-> FALSE, err |-> NoError]
    /\ pc' = "done"
    /\ UNCHANGED <<req, stage2, loadIdx, builder, ctx, raised, output, trace, vo>>
    /\ UNCHANGED outsideEngine

(***************************************************************************)
(* execute, engine.rs:111-118: the failure arm                              *)
(***************************************************************************)
RecordFailure ==
    /\ pc = "failed"
    /\ record' = Some([record.v EXCEPT
                          !.completed_at = TRUE,
                          !.error_message = Some(ErrorText(raised.v))])
    /\ writes' = [writes EXCEPT !.completed_at = @ + 1]
    /\ result' = [kind |-> "Ok", output |-> FALSE, err |-> NoError]
    /\ pc' = "done"
    /\ UNCHANGED <<req, stage2, loadIdx, builder, ctx, raised, output, trace, vo>>
    /\ UNCHANGED outsideEngine

(***************************************************************************)
(* CancellationToken::cancel, context.rs:33-35, through the Arc a plug-in   *)
(* hook obtained from ExecutionContext::cancellation_token                  *)
(***************************************************************************)
Cancel ==
    /\ pc \in {"can_execute", "prepare", "execute", "postprocess"}
    /\ ~Udf.shipped
    /\ ~ctx.cancelled
    /\ ctx' = [ctx EXCEPT !.cancelled = TRUE]
    /\ UNCHANGED <<pc, req, record, result, stage2, loadIdx, builder, raised,
                   output, trace, writes, vo>>
    /\ UNCHANGED outsideEngine

(***************************************************************************)
(* ExecutionEngine::validate_only, engine.rs:281-293                        *)
(***************************************************************************)
\* Variant of validate_only: only the first error is reported.
validate_only_FirstError(udf_id, parameters) ==
    IF ~get_udf(udf_id).some
    THEN [called |-> TRUE, udf_id |-> udf_id, ok |-> FALSE, errors |-> <<>>,
          calls |-> <<Event("resolve", udf_id)>>]
    ELSE [called |-> TRUE, udf_id |-> udf_id, ok |-> TRUE,
          errors |-> LET all == validate_parameters(get_udf(udf_id).v.defs, parameters)
                     IN SubSeq(all, 1, IF Len(all) > 1 THEN 1 ELSE Len(all)),
          calls |-> <<Event("resolve", udf_id), Event("validate_parameters", "")>>]

validate_only(udf_id, parameters) ==
    IF ~get_udf(udf_id).some
    THEN [called |-> TRUE, udf_id |-> udf_id, ok |-> FALSE, errors |-> <<>>,
          calls |-> <<Event("resolve", udf_id)>>]
    ELSE [called |-> TRUE, udf_id |-> udf_id, ok |-> TRUE,
          errors |-> validate_parameters(get_udf(udf_id).v.defs, parameters),
          calls |-> <<Event("resolve", udf_id), Event("validate_parameters", "")>>]

\* The caller validates the request of the call that just returned.
ValidateOnly ==
    /\ pc = "done"
    /\ ~vo.called
    /\ vo' = validate_only(req.udf_id, req.parameters)
    /\ UNCHANGED <<pc, req, record, result, stage2, loadIdx, builder, ctx, raised,
                   output, trace, writes>>
    /\ UNCHANGED outsideEngine

\* The caller drops the result; the engine is ready for the next call.
Return ==
    /\ pc = "done"
    /\ pc' = "idle"
    /\ req' = [udf_id |-> "", parameters |-> EmptyMap]
    /\ record' = None(BlankRecord)
    /\ result' = NoResult
    /\ stage2' = None(<<>>)
    /\ loadIdx' = 0
    /\ builder' = EmptyMap
    /\ ctx' = NoContext
    /\ raised' = NoError
    /\ output' = FALSE
    /\ trace' = <<>>
    /\ writes' = NoWrites
    /\ vo' = NoValidateOnly
    /\ UNCHANGED outsideEngine

Next ==
    \/ \E udf_id \in RequestIds : \E parameters \in Requests(udf_id) :
          Execute(udf_id, parameters)
    \/ ValidateParameters
    \/ LoadCurve
    \/ BuildContext
    \/ ValidateDepth
    \/ CheckParameters
    \/ CanExecute
    \/ Prepare
    \/ ExecuteHook
    \/ Postprocess
    \/ RecordFailure
    \/ Cancel
    \/ ValidateOnly
    \/ Return

Spec == Init /\ [][Next]_vars

(***************************************************************************)
(* The registry from UdfRegistry::new() on: registration while the registry *)
(* is owned mutably, reads at any time, the engine once it shares the       *)
(* registry (Arc<UdfRegistry>, commands.rs:82-101)                          *)
(***************************************************************************)
RegistryInit ==
    /\ pc = "startup"
    /\ req = [udf_id |-> "", parameters |-> EmptyMap]
    /\ record = None(BlankRecord)
    /\ result = NoResult
    /\ stage2 = None(<<>>)
    /\ loadIdx = 0
    /\ builder = EmptyMap
    /\ ctx = NoContext
    /\ raised = NoError
    /\ output = FALSE
    /\ trace = <<>>
    /\ writes = NoWrites
    /\ vo = NoValidateOnly
    /\ registry = UdfRegistry_new
    /\ reg = NoRegistration
    /\ listing = NoListing
    /\ fs = EmptyStore
    /\ wr = [w \in Writers |-> IdleWriter]
    /\ written = EmptyMap
    /\ db = <<>>
    /\ cm = IdleCommit
    /\ active = EmptyMap
    /\ heap = EmptyHeap
    /\ call = [c \in Callers |-> IdleCall]
    /\ mutex = 0
    /\ obs = NoObservation
    /\ depth_cache = EmptyMap
    /\ loads = <<>>
    /\ arcs = 0
    /\ hook = NoHookCall

Registration(op, provider, out, before) ==
    [op |-> op, provider |-> provider.key, ok |-> ~out.err.some, err |-> out.err,
     calls |-> out.calls, before |-> before]

RegisterProvider(provider) ==
    /\ pc = "startup"
    /\ LET out == register_provider(registry, provider)
       IN /\ registry' = out.registry
          /\ reg' = Registration("register_provider", provider, out, registry)
    /\ listing' = NoListing
    /\ UNCHANGED outsideRegistry

\* providers/mod.rs: register_builtin_providers
RegisterBuiltinProviders ==
    /\ pc = "startup"
    /\ LET out == register_provider(registry, PetrophysicsProvider)
       IN /\ registry' = out.registry
          /\ reg' = Registration("register_builtin_providers",
                                 PetrophysicsProvider, out, registry)
    /\ listing' = NoListing
    /\ UNCHANGED outsideRegistry

\* Arc::new(registry) and ExecutionEngine::new: no register_provider after it
NewEngine ==
    /\ pc = "startup"
    /\ pc' = "serving"
    /\ reg' = NoRegistration
    /\ listing' = NoListing
    /\ UNCHANGED <<req, record, result, stage2, loadIdx, builder, ctx, raised,
                   output, trace, writes, vo, registry, writerVars, commitVars,
                   commandVars, loaderVars, hookVars>>

LookupIds ==
    {"petro:vshale_linear", "core:moving_average", "x:y:z", "petro:unknown"}
ProviderIds == {"petro", "core", "x", "nope"}
Categories == {"Petrophysics", "PETROPHYSICS", "Transform"}
Queries == {"Shale", "scale"}

Listed(op, arg, found, result_) ==
    /\ pc \in {"startup", "serving"}
    /\ listing' = [op |-> op, arg |-> arg, found |-> found, result |-> result_]
    /\ reg' = NoRegistration
    /\ registry' = registry
    /\ UNCHANGED outsideRegistry

ListProviders == Listed("list_providers", "", TRUE, list_providers(registry))

ListUdfs == Listed("list_udfs", "", TRUE, list_udfs(registry))

ListProviderUdfs(provider_id) ==
    Listed("list_provider_udfs", provider_id, TRUE,
           list_provider_udfs(registry, provider_id))

ListUdfsByCategory(category) ==
    Listed("list_udfs_by_category", category, TRUE,
           list_udfs_by_category(registry, category))

\* Variant of SearchUdfs: what the search finds is taken out of the registry.
SearchUdfs_Drains(query) ==
    /\ pc \in {"startup", "serving"}
    /\ listing' = [op |-> "search_udfs", arg |-> query, found |-> TRUE,
                   result |-> search_udfs(registry, query)]
    /\ reg' = NoRegistration
    /\ LET hits == {u.full_id : u \in search_udfs(registry, query)}
       IN registry' = [registry EXCEPT
                          !.udfs = [id \in DOMAIN @ \ hits |-> @[id]]]
    /\ UNCHANGED outsideRegistry

SearchUdfs(query) ==
    Listed("search_udfs", query, TRUE, search_udfs(registry, query))

GetUdf(id) ==
    Listed("get_udf", id, registry_get_udf(registry, id).some,
           {registry_get_udf(registry, id).v})

GetProvider(provider_id) ==
    Listed("get_provider", provider_id, get_provider(registry, provider_id).some,
           {get_provider(registry, provider_id).v})

\* What the engine does with the registry it shares: execute (engine.rs:62-68),
\* validate_only (287-290) and get_parameter_definitions (300-303) look the
\* UDF up with get_udf; the rest of each call works on the UDF it got.
EngineLookup(op, udf_id) ==
    /\ pc = "serving"
    /\ listing' = [op |-> op, arg |-> udf_id,
                   found |-> registry_get_udf(registry, udf_id).some,
                   result |-> {registry_get_udf(registry, udf_id).v}]
    /\ reg' = NoRegistration
    /\ registry' = registry
    /\ UNCHANGED outsideRegistry

EngineExecute(udf_id) == EngineLookup("execute", udf_id)

EngineValidateOnly(udf_id) == EngineLookup("validate_only", udf_id)

GetParameterDefinitions(udf_id) == EngineLookup("get_parameter_definitions", udf_id)

RegistryNext ==
    \/ \E provider \in Providers : RegisterProvider(provider)
    \/ RegisterBuiltinProviders
    \/ NewEngine
    \/ ListProviders
    \/ ListUdfs
    \/ \E provider_id \in ProviderIds : ListProviderUdfs(provider_id)
    \/ \E category \in Categories : ListUdfsByCategory(category)
    \/ \E query \in Queries : SearchUdfs(query)
    \/ \E id \in LookupIds : GetUdf(id)
    \/ \E provider_id \in ProviderIds : GetProvider(provider_id)
    \/ \E id \in LookupIds : EngineExecute(id)
    \/ \E id \in LookupIds : EngineValidateOnly(id)
    \/ \E id \in LookupIds : GetParameterDefinitions(id)

RegistrySpec == RegistryInit /\ [][RegistryNext]_vars

(***************************************************************************)
(* The blob store under write_parquet_blob, one action per file operation   *)
(***************************************************************************)
blob_path(w) == blob_path_of(wr[w].hash)
temp_path(w) == with_extension(blob_path(w), "parquet.tmp")

Step(w, next) == wr' = [wr EXCEPT ![w] = next]

\* an error return drops the open file; faulted records that the operating
\* system refused an operation of this call that it could have carried out
Fails(w, what) ==
    [wr[w] EXCEPT !.pc = "return", !.fd = 0, !.faulted = TRUE,
                  !.result = WriteErr(IoError(what))]

\* write_parquet_blob entered: bytes in memory, digest, path
Call(w, curve) ==
    /\ wr[w].pc = "idle"
    /\ wr[w].calls < MaxWrites
    /\ LET bytes == create_parquet_bytes(curve)
       IN Step(w, [wr[w] EXCEPT !.pc = "exists", !.calls = @ + 1, !.output = curve,
                                !.bytes = bytes, !.hash = Sha256Hex(bytes),
                                !.fd = 0, !.offset = 0, !.faulted = FALSE,
                                !.second = bytes \in DOMAIN written])
    /\ UNCHANGED <<fs, written>>
    /\ UNCHANGED outsideWriter

\* the variant that writes whether or not the blob is there
CheckExists_AlwaysWrites(w) ==
    /\ wr[w].pc = "exists"
    /\ Step(w, [wr[w] EXCEPT !.pc = "create_dir_all"])
    /\ UNCHANGED <<fs, written>>
    /\ UNCHANGED outsideWriter

\* if blob_path.exists() { return Ok((hash, blob_path)) }
CheckExists(w) ==
    /\ wr[w].pc = "exists"
    /\ IF exists(fs, blob_path(w))
       THEN Step(w, [wr[w] EXCEPT !.pc = "return",
                                  !.result = WriteOk(wr[w].hash, blob_path(w))])
       ELSE Step(w, [wr[w] EXCEPT !.pc = "create_dir_all"])
    /\ UNCHANGED <<fs, written>>
    /\ UNCHANGED outsideWriter

\* fs::create_dir_all(parent)
CreateDirs(w) ==
    /\ wr[w].pc = "create_dir_all"
    /\ \E done \in BOOLEAN :
         IF done
         THEN /\ fs' = create_dir_all(fs, blob_path(w).dir)
              /\ Step(w, [wr[w] EXCEPT !.pc = "create"])
         ELSE /\ fs' = fs
              /\ Step(w, Fails(w, "Failed to create blob directory"))
    /\ UNCHANGED written
    /\ UNCHANGED outsideWriter

\* the variant that writes the blob in place
CreateTemp_InPlace(w) ==
    /\ wr[w].pc = "create"
    /\ \E done \in BOOLEAN :
         IF done
         THEN LET store == file_create(fs, blob_path(w))
              IN /\ fs' = store
                 /\ Step(w, [wr[w] EXCEPT !.pc = "write_all",
                                          !.fd = store.names[blob_path(w)],
                                          !.offset = 0])
         ELSE /\ fs' = fs
              /\ Step(w, Fails(w, "create"))
    /\ UNCHANGED written
    /\ UNCHANGED outsideWriter

\* fs::File::create(&temp_path)
CreateTemp(w) ==
    /\ wr[w].pc = "create"
    /\ \E done \in BOOLEAN :
         IF done
         THEN LET store == file_create(fs, temp_path(w))
              IN /\ fs' = store
                 /\ Step(w, [wr[w] EXCEPT !.pc = "write_all",
                                          !.fd = store.names[temp_path(w)],
                                          !.offset = 0])
         ELSE /\ fs' = fs
              /\ Step(w, Fails(w, "create"))
    /\ UNCHANGED written
    /\ UNCHANGED outsideWriter

\* file.write_all(&parquet_bytes), a block at a time
WriteAll(w) ==
    /\ wr[w].pc = "write_all"
    /\ \E done \in BOOLEAN :
         IF done
         THEN /\ fs' = write_at(fs, wr[w].fd, wr[w].offset,
                                Blocks(wr[w].bytes)[wr[w].offset + 1])
              /\ Step(w, [wr[w] EXCEPT
                     !.offset = @ + 1,
                     !.pc = IF wr[w].offset + 1 = Len(Blocks(wr[w].bytes))
                            THEN "sync_all" ELSE "write_all"])
         ELSE /\ fs' = fs
              /\ Step(w, Fails(w, "write_all"))
    /\ UNCHANGED written
    /\ UNCHANGED outsideWriter

\* file.sync_all(), then the file is closed
SyncAll(w) ==
    /\ wr[w].pc = "sync_all"
    /\ \E done \in BOOLEAN :
         IF done
         THEN Step(w, [wr[w] EXCEPT !.pc = "rename", !.fd = 0])
         ELSE Step(w, Fails(w, "sync_all"))
    /\ UNCHANGED <<fs, written>>
    /\ UNCHANGED outsideWriter

\* fs::rename(&temp_path, &blob_path); on error remove_file(&temp_path)
Rename(w) ==
    /\ wr[w].pc = "rename"
    /\ \E done \in BOOLEAN :
         IF done /\ exists(fs, temp_path(w))
         THEN /\ fs' = rename(fs, temp_path(w), blob_path(w))
              /\ Step(w, [wr[w] EXCEPT !.pc = "return",
                                       !.result = WriteOk(wr[w].hash, blob_path(w))])
         ELSE /\ fs' = remove_file(fs, temp_path(w))
              /\ Step(w, [Fails(w, "rename") EXCEPT
                              !.faulted = exists(fs, temp_path(w))])
    /\ UNCHANGED written
    /\ UNCHANGED outsideWriter

\* the caller has the result; the first Ok for these bytes is remembered
WriterReturn(w) ==
    /\ wr[w].pc = "return"
    /\ Step(w, [wr[w] EXCEPT !.pc = "idle"])
    /\ written' = IF wr[w].result.ok /\ wr[w].bytes \notin DOMAIN written
                  THEN MapInsert(written, wr[w].bytes, wr[w].result)
                  ELSE written
    /\ UNCHANGED fs
    /\ UNCHANGED outsideWriter

WriterNext ==
    \E w \in Writers :
        \/ \E curve \in Outputs : Call(w, curve)
        \/ CheckExists(w)
        \/ CreateDirs(w)
        \/ CreateTemp(w)
        \/ WriteAll(w)
        \/ SyncAll(w)
        \/ Rename(w)
        \/ WriterReturn(w)

WriterSpec == Init /\ [][WriterNext]_vars

\* callers that take turns: a call starts when no other call is in flight
SerialCall(w, curve) ==
    /\ \A v \in Writers : wr[v].pc = "idle"
    /\ Call(w, curve)

SerialWriterNext ==
    \E w \in Writers :
        \/ \E curve \in Outputs : SerialCall(w, curve)
        \/ CheckExists(w)
        \/ CreateDirs(w)
        \/ CreateTemp(w)
        \/ WriteAll(w)
        \/ SyncAll(w)
        \/ Rename(w)
        \/ WriterReturn(w)

SerialWriterSpec == Init /\ [][SerialWriterNext]_vars

(***************************************************************************)
(* commit_execution: the blob write of caller 1, then register_curve        *)
(***************************************************************************)
\* commit_execution entered
CommitExecution(well_id, curve, execution_record) ==
    /\ cm.pc = "idle"
    /\ wr[1].pc = "idle"
    /\ wr[1].calls < MaxWrites
    /\ cm' = [IdleCommit EXCEPT !.pc = "write_parquet_blob", !.calls = wr[1].calls,
                                !.well_id = well_id, !.output = curve,
                                !.record = execution_record,
                                !.before = execution_record]
    /\ UNCHANGED <<db, writerVars>>
    /\ UNCHANGED outsideCommit

\* self.write_parquet_blob(output) is called
CommitWrites ==
    /\ cm.pc = "write_parquet_blob"
    /\ wr[1].calls = cm.calls
    /\ Call(1, cm.output)

\* a file operation of that call
CommitWriteStep ==
    /\ cm.pc = "write_parquet_blob"
    /\ \/ CheckExists(1)
       \/ CreateDirs(1)
       \/ CreateTemp(1)
       \/ WriteAll(1)
       \/ SyncAll(1)
       \/ Rename(1)

\* the variant that leaves the record's hash as it was
CommitBlobWritten_KeepsHash ==
    /\ cm.pc = "write_parquet_blob"
    /\ wr[1].pc = "return"
    /\ Step(1, [wr[1] EXCEPT !.pc = "idle"])
    /\ written' = IF wr[1].result.ok /\ wr[1].bytes \notin DOMAIN written
                  THEN MapInsert(written, wr[1].bytes, wr[1].result)
                  ELSE written
    /\ cm' = IF wr[1].result.ok
             THEN [cm EXCEPT !.pc = "register_curve",
                             !.parquet_hash = wr[1].result.hash,
                             !.blob_path = wr[1].result.path,
                             !.steps = Append(@, "write_parquet_blob")]
             ELSE [cm EXCEPT !.pc = "return", !.result = CommitErr(wr[1].result.err)]
    /\ UNCHANGED <<fs, db>>
    /\ UNCHANGED outsideCommit

\* write_parquet_blob(output)? returned: on Ok the hash is stamped on the record
CommitBlobWritten ==
    /\ cm.pc = "write_parquet_blob"
    /\ wr[1].pc = "return"
    /\ Step(1, [wr[1] EXCEPT !.pc = "idle"])
    /\ written' = IF wr[1].result.ok /\ wr[1].bytes \notin DOMAIN written
                  THEN MapInsert(written, wr[1].bytes, wr[1].result)
                  ELSE written
    /\ cm' = IF wr[1].result.ok
             THEN [cm EXCEPT !.pc = "register_curve",
                             !.parquet_hash = wr[1].result.hash,
                             !.blob_path = wr[1].result.path,
                             !.record.output_parquet_hash = Some(wr[1].result.hash),
                             !.steps = Append(@, "write_parquet_blob")]
             ELSE [cm EXCEPT !.pc = "return", !.result = CommitErr(wr[1].result.err)]
    /\ UNCHANGED <<fs, db>>
    /\ UNCHANGED outsideCommit

\* register_curve(...)?, then the curve id is stamped and Ok returned
RegisterCurve ==
    /\ cm.pc = "register_curve"
    /\ \E inserted \in BOOLEAN :
         IF inserted
         THEN LET row == CurveRow(db, cm.well_id, cm.output, cm.parquet_hash, cm.record)
              IN /\ db' = Append(db, row)
                 /\ cm' = [cm EXCEPT !.pc = "return",
                                     !.record.output_curve_id = Some(row.id),
                                     !.steps = Append(@, "register_curve"),
                                     !.result = RegisteredOutput(row.id, cm.parquet_hash,
                                                                 cm.blob_path)]
         ELSE /\ db' = db
              /\ cm' = [cm EXCEPT !.pc = "return",
                                  !.result = CommitErr(Some(UdfError("DatabaseError",
                                                                     <<"insert">>)))]
    /\ UNCHANGED writerVars
    /\ UNCHANGED outsideCommit

\* the caller has the result and its record back
CommitReturn ==
    /\ cm.pc = "return"
    /\ cm' = [cm EXCEPT !.pc = "idle"]
    /\ UNCHANGED <<db, writerVars>>
    /\ UNCHANGED outsideCommit

CommitNext ==
    \/ \E well_id \in WellIds, curve \in Outputs, execution_record \in Records :
          CommitExecution(well_id, curve, execution_record)
    \/ CommitWrites
    \/ CommitWriteStep
    \/ CommitBlobWritten
    \/ RegisterCurve
    \/ CommitReturn

CommitSpec == Init /\ [][CommitNext]_vars

(***************************************************************************)
(* execute_udf, commands.rs:611-748, and the commands that watch it         *)
(***************************************************************************)
Advance(c, next) == call' = [call EXCEPT ![c] = next]

\* execute_udf entered: the execution id, a token and a progress state are made
ExecuteUdf(c, request) ==
    /\ call[c].pc = "idle"
    /\ call[c].calls < MaxCalls
    /\ heap' = DrawUuid(AllocProgress(AllocToken(heap)))
    /\ Advance(c, [IdleCall EXCEPT !.pc = "insert", !.calls = call[c].calls + 1,
                                   !.request = request,
                                   !.execution_id = NextUuid(heap),
                                   !.cancel_token = NewToken(heap),
                                   !.progress_state = NewProgressState(AllocToken(heap))])
    /\ UNCHANGED <<active, mutex, obs>>
    /\ UNCHANGED outsideCommand

\* RwLock::write() and RwLock::read() return when no write guard is out; a
\* read guard lives within one step of this model
ExecutionsUnlocked == \A c \in Callers : call[c].guard = ""

\* executions.write(), then
\* executions.insert(execution_id, (cancel_token, progress_state))
InsertExecution(c) ==
    /\ call[c].pc = "insert"
    /\ ExecutionsUnlocked
    /\ active' = MapInsert(active, call[c].execution_id,
                           [cancel_token |-> call[c].cancel_token,
                            progress_state |-> call[c].progress_state])
    /\ Advance(c, [call[c] EXCEPT !.pc = "inserted", !.guard = "write"])
    /\ UNCHANGED <<heap, mutex, obs>>
    /\ UNCHANGED outsideCommand

\* the variant whose write guard lives on through execute_udf_inner
InsertGuardDropped_Late(c) ==
    /\ call[c].pc = "inserted"
    /\ Advance(c, [call[c] EXCEPT !.pc = "lock"])
    /\ UNCHANGED <<active, heap, mutex, obs>>
    /\ UNCHANGED outsideCommand

\* the block of the insert ends: the write guard is dropped
InsertGuardDropped(c) ==
    /\ call[c].pc = "inserted"
    /\ Advance(c, [call[c] EXCEPT !.pc = "lock", !.guard = ""])
    /\ UNCHANGED <<active, heap, mutex, obs>>
    /\ UNCHANGED outsideCommand

\* execute_udf_inner: state.lock()
LockState(c) ==
    /\ call[c].pc = "lock"
    /\ mutex = 0
    /\ mutex' = c
    /\ Advance(c, [call[c] EXCEPT !.pc = "inner"])
    /\ UNCHANGED <<active, heap, obs>>
    /\ UNCHANGED outsideCommand

Finished(c, result_) ==
    [call[c] EXCEPT !.pc = "remove", !.result = result_,
                    !.context_token = 0, !.context_progress = 0, !.check = ""]

ErrText(text) == [ok |-> FALSE, success |-> FALSE, execution_id |-> 0, error |-> text]

\* the well id is parsed, then engine.execute resolves the UDF, makes the record
\* under its own Uuid::new_v4() and builds the context, whose builder was given
\* no token and no progress state and so makes new ones
EngineStarts(c) ==
    /\ call[c].pc = "inner"
    /\ IF call[c].request.well_id = "not-a-uuid"
       THEN /\ Advance(c, Finished(c, ErrText("Invalid well ID")))
            /\ mutex' = 0
            /\ heap' = heap
       ELSE IF ~get_udf(call[c].request.udf_id).some
       THEN /\ Advance(c, Finished(c, ErrText("UDF not found")))
            /\ mutex' = 0
            /\ heap' = heap
       ELSE /\ heap' = DrawUuid(AllocProgress(AllocToken(heap)))
            /\ Advance(c, [call[c] EXCEPT !.pc = "udf",
                                          !.record_id = NextUuid(heap),
                                          !.context_token = NewToken(heap),
                                          !.context_progress =
                                              NewProgressState(AllocToken(heap))])
            /\ mutex' = mutex
    /\ UNCHANGED <<active, obs>>
    /\ UNCHANGED outsideCommand

\* a hook calls context.set_progress(percent)
UdfSetsProgress(c, percent) ==
    /\ call[c].pc = "udf"
    /\ heap' = [heap EXCEPT !.progress[call[c].context_progress] =
                                set_progress(@, percent)]
    /\ UNCHANGED <<active, call, mutex, obs>>
    /\ UNCHANGED outsideCommand

\* a hook calls context.set_progress_with_message(percent, message)
UdfSetsProgressWithMessage(c, percent, message) ==
    /\ call[c].pc = "udf"
    /\ heap' = [heap EXCEPT !.progress[call[c].context_progress] =
                                set_progress_with_message(@, percent, message)]
    /\ UNCHANGED <<active, call, mutex, obs>>
    /\ UNCHANGED outsideCommand

\* a hook calls context.check_cancelled()
UdfChecksCancelled(c) ==
    /\ call[c].pc = "udf"
    /\ Advance(c, [call[c] EXCEPT !.check = IF heap.tokens[call[c].context_token]
                                            THEN "Cancelled" ELSE "Ok"])
    /\ UNCHANGED <<active, heap, mutex, obs>>
    /\ UNCHANGED outsideCommand

\* engine.execute returns, the response is built, the state guard is dropped
EngineEnds(c) ==
    /\ call[c].pc = "udf"
    /\ \E success \in BOOLEAN :
         /\ call[c].check = "Cancelled" => ~success
         /\ Advance(c, Finished(c, [ok |-> TRUE, success |-> success,
                                    execution_id |-> call[c].execution_id,
                                    error |-> IF success THEN "" ELSE "failed"]))
    /\ heap' = DropArcs(heap, call[c].context_token, call[c].context_progress)
    /\ mutex' = 0
    /\ UNCHANGED <<active, obs>>
    /\ UNCHANGED outsideCommand

\* the variant that unregisters after an Ok only
RemoveExecution_OnOkOnly(c) ==
    /\ call[c].pc = "remove"
    /\ ExecutionsUnlocked
    /\ active' = IF call[c].result.ok
                 THEN MapRemove(active, call[c].execution_id)
                 ELSE active
    /\ Advance(c, [call[c] EXCEPT !.pc = "removed", !.guard = "write"])
    /\ UNCHANGED <<heap, mutex, obs>>
    /\ UNCHANGED outsideCommand

\* executions.write(), then executions.remove(&execution_id)
RemoveExecution(c) ==
    /\ call[c].pc = "remove"
    /\ ExecutionsUnlocked
    /\ active' = MapRemove(active, call[c].execution_id)
    /\ Advance(c, [call[c] EXCEPT !.pc = "removed", !.guard = "write"])
    /\ UNCHANGED <<heap, mutex, obs>>
    /\ UNCHANGED outsideCommand

\* the block of the remove ends: the write guard is dropped
RemoveGuardDropped(c) ==
    /\ call[c].pc = "removed"
    /\ Advance(c, [call[c] EXCEPT !.pc = "return", !.guard = ""])
    /\ UNCHANGED <<active, heap, mutex, obs>>
    /\ UNCHANGED outsideCommand

\* execute_udf has returned: its token and progress state are dropped
ExecuteUdfReturn(c) ==
    /\ call[c].pc = "return"
    /\ heap' = DropArcs(heap, call[c].cancel_token, call[c].progress_state)
    /\ Advance(c, [IdleCall EXCEPT !.calls = call[c].calls, !.result = call[c].result])
    /\ UNCHANGED <<active, mutex, obs>>
    /\ UNCHANGED outsideCommand

\* ids an outside caller may name
KnownIds ==
    DOMAIN active \cup {call[c].execution_id : c \in Callers}
                  \cup {call[c].result.execution_id : c \in Callers}

\* cancel_execution(execution_id)
CancelExecution(id) ==
    /\ ExecutionsUnlocked
    /\ IF id \in DOMAIN active
       THEN /\ heap' = [heap EXCEPT !.tokens[active[id].cancel_token] = TRUE]
            /\ obs' = [op |-> "cancel_execution", execution_id |-> id,
                       found |-> TRUE, answer |-> <<>>]
       ELSE /\ heap' = heap
            /\ obs' = [op |-> "cancel_execution", execution_id |-> id,
                       found |-> FALSE, answer |-> <<>>]
    /\ UNCHANGED <<active, call, mutex>>
    /\ UNCHANGED outsideCommand

\* get_execution_progress(execution_id)
GetExecutionProgress(id) ==
    /\ ExecutionsUnlocked
    /\ obs' = IF id \in DOMAIN active
              THEN [op |-> "get_execution_progress", execution_id |-> id, found |-> TRUE,
                    answer |-> <<ExecutionProgress(id, active[id], heap)>>]
              ELSE [op |-> "get_execution_progress", execution_id |-> id, found |-> FALSE,
                    answer |-> <<>>]
    /\ UNCHANGED <<active, heap, call, mutex>>
    /\ UNCHANGED outsideCommand

\* list_active_executions()
ListActiveExecutions ==
    /\ ExecutionsUnlocked
    /\ \E order \in Orders(DOMAIN active) :
         obs' = [op |-> "list_active_executions", execution_id |-> 0, found |-> TRUE,
                 answer |-> [i \in 1..Len(order) |->
                               ExecutionProgress(order[i], active[order[i]], heap)]]
    /\ UNCHANGED <<active, heap, call, mutex>>
    /\ UNCHANGED outsideCommand

CommandNext ==
    \/ \E c \in Callers :
          \/ \E request \in UdfRequests : ExecuteUdf(c, request)
          \/ InsertExecution(c)
          \/ InsertGuardDropped(c)
          \/ LockState(c)
          \/ EngineStarts(c)
          \/ \E percent \in Percents : UdfSetsProgress(c, percent)
          \/ UdfSetsProgressWithMessage(c, 50, "working")
          \/ UdfChecksCancelled(c)
          \/ EngineEnds(c)
          \/ RemoveExecution(c)
          \/ RemoveGuardDropped(c)
          \/ ExecuteUdfReturn(c)
    \/ \E id \in KnownIds : CancelExecution(id)
    \/ \E id \in KnownIds : GetExecutionProgress(id)
    \/ ListActiveExecutions

CommandSpec == Init /\ [][CommandNext]_vars

(***************************************************************************)
(* The curve loader of an execution, data_loader.rs:25-33 and 78-213        *)
(***************************************************************************)
\* DataForgeCurveLoader::new: a loader with an empty cache, the arrays of the
\* one before it dropped
NewLoader ==
    /\ Len(loads) > 0
    /\ depth_cache # EmptyMap
    /\ depth_cache' = EmptyMap
    /\ loads' = <<>>
    /\ arcs' = 0
    /\ UNCHANGED outsideLoader

\* load_curve(curve_id)
LoaderLoadCurve(curve_id) ==
    /\ Len(loads) < MaxLoads
    /\ LET out == DataForge_load_curve(depth_cache, curve_id, arcs + 1)
       IN /\ depth_cache' = out.cache
          /\ loads' = Append(loads, out.result)
          /\ arcs' = IF out.result.ok /\ out.result.depths.ptr = arcs + 1
                     THEN arcs + 1 ELSE arcs
    /\ UNCHANGED outsideLoader

LoaderNext ==
    \/ NewLoader
    \/ \E curve_id \in CurveIds : LoaderLoadCurve(curve_id)

LoaderSpec == Init /\ [][LoaderNext]_vars

(***************************************************************************)
(* ExecutionContext on its own: new and add_curve, context.rs:130-141 and   *)
(* 253-265                                                                  *)
(***************************************************************************)
\* ExecutionContext::add_curve: the reference is pushed, the name is (re)bound
add_curve(context, param_name, curve) ==
    [context EXCEPT !.input_refs = Append(@, InputReference(curve)),
                    !.curves = MapInsert(@, param_name, curve.curve_id)]

\* calls of add_curve on a context
MaxAdds == 3

ContextNew ==
    /\ ~ctx.built
    /\ ctx' = [NoContext EXCEPT !.built = TRUE]
    /\ UNCHANGED <<pc, req, record, result, stage2, loadIdx, builder, raised,
                   output, trace, writes, vo>>
    /\ UNCHANGED outsideEngine

AddCurve(param_name, curve_id) ==
    /\ ctx.built
    /\ Len(ctx.input_refs) < MaxAdds
    /\ ctx' = add_curve(ctx, param_name, CurveStore[curve_id])
    /\ UNCHANGED <<pc, req, record, result, stage2, loadIdx, builder, raised,
                   output, trace, writes, vo>>
    /\ UNCHANGED outsideEngine

\* validate_depth_compatibility on the context as it stands, once
ContextValidateDepth ==
    /\ ctx.built
    /\ ctx.curves # EmptyMap
    /\ trace = <<>>
    /\ trace' = <<Event("validate_depth_compatibility", "")>>
    /\ \E order \in Orders(DOMAIN ctx.curves) :
          raised' = validate_depth_compatibility(order, ctx.curves)
    /\ UNCHANGED <<pc, req, record, result, stage2, loadIdx, builder, ctx,
                   output, writes, vo>>
    /\ UNCHANGED outsideEngine

ContextNext ==
    \/ ContextNew
    \/ \E param_name \in {"gr_curve", "input_curve", "ref_curve"},
          curve_id \in DOMAIN CurveStore :
          AddCurve(param_name, curve_id)
    \/ ContextValidateDepth

ContextSpec == Init /\ [][ContextNext]_vars

(***************************************************************************)
(* providers/core.rs, providers/petrophysics.rs: what execute computes      *)
(*                                                                         *)
(* f64 arithmetic is binary floating point rounded to nearest, ties to     *)
(* even.  The model keeps MantissaBits significant bits (binary64 keeps    *)
(* 53) and the integers as its finest grid, so that a sum that does not    *)
(* fit the significand is rounded here as it is there, and a result past  *)
(* the largest finite number is an infinity.                               *)
(***************************************************************************)
MantissaBits == 7
MaxExponent == 1

RECURSIVE Pow2(_)
Pow2(n) == IF n = 0 THEN 1 ELSE 2 * Pow2(n - 1)

\* distance between neighbouring representable numbers at magnitude m >= 0
RECURSIVE Spacing(_)
Spacing(m) == IF m < Pow2(MantissaBits) THEN 1 ELSE 2 * Spacing(m \div 2)

\* the representable number nearest to n / d (n >= 0, d > 0), ties to even
RoundMagnitude(n, d) ==
    LET s == Spacing(n \div d)
        lo == ((n \div d) \div s) * s
        hi == lo + s
    IN IF 2 * n < (lo + hi) * d THEN lo
       ELSE IF 2 * n > (lo + hi) * d THEN hi
       ELSE IF (lo \div s) % 2 = 0 THEN lo ELSE hi

\* n / d rounded (d # 0)
RoundRatio(n, d) ==
    LET num == IF d < 0 THEN 0 - n ELSE n
        den == IF d < 0 THEN 0 - d ELSE d
    IN IF num < 0 THEN 0 - RoundMagnitude(0 - num, den) ELSE RoundMagnitude(num, den)

\* f64::MAX of the format, and the result of an operation on finite operands
MaxFinite == (Pow2(MantissaBits) - 1) * Pow2(MaxExponent)

Rounded(n, d) ==
    IF RoundRatio(n, d) > MaxFinite THEN Infinity
    ELSE IF RoundRatio(n, d) < 0 - MaxFinite THEN NegInfinity
    ELSE RoundRatio(n, d)

IsInfinite(x) == x = Infinity \/ x = NegInfinity
SignedInfinity(a, b) == IF (a < 0) = (b < 0) THEN Infinity ELSE NegInfinity

\* f64 +, -, *, /: NaN propagates; inf - inf, 0 * inf, inf / inf and 0 / 0 are
\* NaN; x / 0 is an infinity
f64_add(a, b) ==
    IF a = NaN \/ b = NaN THEN NaN
    ELSE IF IsInfinite(a) /\ IsInfinite(b) THEN (IF a = b THEN a ELSE NaN)
    ELSE IF IsInfinite(a) THEN a
    ELSE IF IsInfinite(b) THEN b
    ELSE Rounded(a + b, 1)

f64_sub(a, b) == IF b = NaN THEN NaN ELSE f64_add(a, 0 - b)

f64_mul(a, b) ==
    IF a = NaN \/ b = NaN THEN NaN
    ELSE IF IsInfinite(a) \/ IsInfinite(b)
    THEN (IF a = 0 \/ b = 0 THEN NaN ELSE SignedInfinity(a, b))
    ELSE Rounded(a * b, 1)

f64_div(a, b) ==
    IF a = NaN \/ b = NaN THEN NaN
    ELSE IF IsInfinite(a) THEN (IF IsInfinite(b) THEN NaN ELSE SignedInfinity(a, b))
    ELSE IF IsInfinite(b) THEN 0
    ELSE IF b = 0 THEN (IF a = 0 THEN NaN ELSE SignedInfinity(a, b))
    ELSE Rounded(a, b)

\* Iterator::sum::<f64>(): a left fold of + from 0.0
RECURSIVE iter_sum(_, _)
iter_sum(acc, xs) ==
    IF Len(xs) = 0 THEN acc ELSE iter_sum(f64_add(acc, Head(xs)), Tail(xs))

\* usize::saturating_sub and Ord::min
saturating_sub(a, b) == IF a < b THEN 0 ELSE a - b
usize_min(a, b) == IF a < b THEN a ELSE b

\* values[start..end]: 0-based, end excluded
slice(values, start, end) == SubSeq(values, start + 1, end)

\* MovingAverageUdf::execute, core.rs:175-183: the nulls of the window count as 0.0
window_mean_NullIsZero(window) ==
    IF Len(window) = 0 THEN None(0)
    ELSE Some(f64_div(iter_sum(0, valid_values(window)), Len(window)))

\* MovingAverageUdf::execute, core.rs:175-183: one window's output sample
window_mean(window) ==
    LET window_values == valid_values(window)
    IN IF Len(window_values) = 0 THEN None(0)
       ELSE Some(f64_div(iter_sum(0, window_values), Len(window_values)))

\* MovingAverageUdf::execute, core.rs:163-187: output.values
MovingAverage_values(values, parameters) ==
    LET window_size == as_usize(unwrap_or(get_f64(parameters, "window_size"), 5))
        half_window == window_size \div 2
    IN [k \in 1..Len(values) |->
          LET i == k - 1
              start == saturating_sub(i, half_window)
              end == usize_min(i + half_window + 1, Len(values))
          IN window_mean(slice(values, start, end))]

\* Option::map over the samples of a curve
map_values(values, f(_)) ==
    [k \in 1..Len(values) |->
        IF values[k].some THEN Some(f(values[k].v)) ELSE None(0)]

\* VShaleLinearUdf::execute, petrophysics.rs:204: the range is not subtracted
VShaleLinear_values_Ratio(values, parameters) ==
    IF ~get_f64(parameters, "gr_min").some
    THEN HookErr(UdfError("ParameterValidation", <<"gr_min is required">>))
    ELSE IF ~get_f64(parameters, "gr_max").some
    THEN HookErr(UdfError("ParameterValidation", <<"gr_max is required">>))
    ELSE LET gr_min == get_f64(parameters, "gr_min").v
             gr_max == get_f64(parameters, "gr_max").v
             igr(gr) == f64_div(gr, gr_max)
         IN HookOk(map_values(values, igr))

\* VShaleLinearUdf::execute, petrophysics.rs:179-215: output.values
VShaleLinear_values(values, parameters) ==
    IF ~get_f64(parameters, "gr_min").some
    THEN HookErr(UdfError("ParameterValidation", <<"gr_min is required">>))
    ELSE IF ~get_f64(parameters, "gr_max").some
    THEN HookErr(UdfError("ParameterValidation", <<"gr_max is required">>))
    ELSE LET gr_min == get_f64(parameters, "gr_min").v
             gr_max == get_f64(parameters, "gr_max").v
             gr_range == f64_sub(gr_max, gr_min)
             igr(gr) == f64_div(f64_sub(gr, gr_min), gr_range)
         IN HookOk(map_values(values, igr))

\* VShaleLinearUdf::execute, petrophysics.rs:194-226: output.warnings.  The
\* percentage is out_of_bounds_count / gr_curve.len() * 100.0, which compares
\* with 5.0 as the exact quotient does; its digits in the text are left out.
VShaleLinear_warnings(values, parameters) ==
    LET vsh == VShaleLinear_values(values, parameters)
        out_of_bounds_count ==
            Cardinality({i \in 1..Len(values) :
                            /\ vsh.v[i].some
                            /\ (FLt(vsh.v[i].v, 0) \/ FGt(vsh.v[i].v, 1))})
    IN IF ~vsh.ok THEN <<>>
       ELSE IF out_of_bounds_count > 0 /\ out_of_bounds_count * 100 > 5 * Len(values)
       THEN << <<"% of values are outside 0-1 range. Consider adjusting GR min/max.">> >>
       ELSE <<>>

\* ParameterValues::get_f64_or
get_f64_or(values, name, dflt) == unwrap_or(get_f64(values, name), dflt)

\* LinearScaleUdf::execute, core.rs:320-366: output.values
LinearScale_values(values, parameters) ==
    IF ~get_f64(parameters, "in_min").some
    THEN HookErr(UdfError("ParameterValidation", <<"in_min is required">>))
    ELSE IF ~get_f64(parameters, "in_max").some
    THEN HookErr(UdfError("ParameterValidation", <<"in_max is required">>))
    ELSE LET in_min == get_f64(parameters, "in_min").v
             in_max == get_f64(parameters, "in_max").v
             out_min == get_f64_or(parameters, "out_min", 0)
             out_max == get_f64_or(parameters, "out_max", 1)
             in_range == f64_sub(in_max, in_min)
             out_range == f64_sub(out_max, out_min)
             scaled(val) ==
                 f64_add(f64_mul(f64_div(f64_sub(val, in_min), in_range), out_range),
                         out_min)
         IN HookOk(map_values(values, scaled))

\* longest input curve of a call
MaxLen == 4

RECURSIVE SeqsUpTo(_, _)
SeqsUpTo(S, n) ==
    IF n = 0 THEN {<<>>}
    ELSE SeqsUpTo(S, n - 1) \cup
         {Append(q, x) : q \in {r \in SeqsUpTo(S, n - 1) : Len(r) = n - 1}, x \in S}

\* samples of the moving-average input and the window_size values passed
AverageSamples == {None(0), Some(12), Some(24), Some(NaN)}
WindowSizes == {Absent, PV("Number", 1), PV("Number", 3), PV("Number", 4),
                PV("Number", 5), PV("Integer", 3)}

HookCallOf(udf, values, parameters) ==
    [udf |-> udf, values |-> values, parameters |-> parameters, output |-> <<>>,
     warnings |-> <<>>, returned |-> FALSE]

\* a caller enters MovingAverageUdf::execute with the bound curve's values
EnterMovingAverage ==
    /\ hook = NoHookCall
    /\ \E values \in SeqsUpTo(AverageSamples, MaxLen), window_size \in WindowSizes :
          hook' = HookCallOf("moving_average", values,
                             MapInsert(EmptyMap, "window_size", window_size))
    /\ UNCHANGED outsideHook

\* sample and parameter values of the linear UDFs: the last two are as far
\* apart as the largest finite number allows
LinearSamples == {None(0), Some(-128), Some(0), Some(1), Some(128)}
Numbers(S) == {PV("Number", n) : n \in S}

\* logged curves: LogLen samples, of which up to two are far above the range,
\* some are inside it and the rest are null
LogLen == 20

Repeat(x, n) == [k \in 1..n |-> x]

LoggedCurves ==
    {Repeat(Some(128), above) \o Repeat(Some(1), LogLen - above - nulls)
        \o Repeat(None(0), nulls) :
        above \in 0..2, nulls \in 0..(LogLen - 2)}

\* a caller enters VShaleLinearUdf::execute after check_parameters passed
EnterVShaleLinear ==
    /\ hook = NoHookCall
    /\ \E values \in SeqsUpTo(LinearSamples, MaxLen) \cup LoggedCurves,
          gr_min \in {Absent} \cup Numbers({-128, 0, 1}),
          gr_max \in {Absent} \cup Numbers({1, 128}) :
          LET parameters ==
                MapInsert(MapInsert(EmptyMap, "gr_min", gr_min), "gr_max", gr_max)
          IN /\ VShaleLinear_check_parameters(parameters) = <<>>
             /\ hook' = HookCallOf("vshale_linear", values, parameters)
    /\ UNCHANGED outsideHook

\* a caller enters LinearScaleUdf::execute after check_parameters passed
EnterLinearScale ==
    /\ hook = NoHookCall
    /\ \E values \in SeqsUpTo(LinearSamples, MaxLen),
          in_min \in {Absent} \cup Numbers({-128, 0}),
          in_max \in {Absent} \cup Numbers({1, 128}),
          out_min \in {Absent} \cup Numbers({-128}),
          out_max \in {Absent} \cup Numbers({1, 128}) :
          LET parameters ==
                MapInsert(MapInsert(MapInsert(MapInsert(EmptyMap,
                    "in_min", in_min), "in_max", in_max),
                    "out_min", out_min), "out_max", out_max)
          IN /\ LinearScale_check_parameters(parameters) = <<>>
             /\ hook' = HookCallOf("linear_scale", values, parameters)
    /\ UNCHANGED outsideHook

\* the body of execute runs and returns the output curve's values
HookExecute ==
    /\ hook.udf # ""
    /\ ~hook.returned
    /\ hook' = [hook EXCEPT
                  !.returned = TRUE,
                  !.output =
                     CASE hook.udf = "moving_average" ->
                            HookOk(MovingAverage_values(hook.values, hook.parameters))
                       [] hook.udf = "vshale_linear" ->
                            VShaleLinear_values(hook.values, hook.parameters)
                       [] hook.udf = "linear_scale" ->
                            LinearScale_values(hook.values, hook.parameters),
                  !.warnings =
                     IF hook.udf = "vshale_linear"
                     THEN VShaleLinear_warnings(hook.values, hook.parameters)
                     ELSE <<>>]
    /\ UNCHANGED outsideHook

HookNext ==
    \/ EnterMovingAverage
    \/ EnterVShaleLinear
    \/ EnterLinearScale
    \/ HookExecute

HookSpec == Init /\ [][HookNext]_vars

(***************************************************************************)
(* Vocabulary of the properties                                             *)
(***************************************************************************)
Done == pc = "done"
Resolved == req.udf_id \in DOMAIN Registry
Terminal == {"Completed", "Failed", "Cancelled"}
HookOps == {"check_parameters", "can_execute", "prepare", "execute", "postprocess"}
Ops(t) == {t[i].op : i \in 1..Len(t)}
LastOp == IF Len(trace) = 0 THEN "" ELSE trace[Len(trace)].op
Failed == raised.some
AbortedWith(kind) == raised.some /\ raised.v.kind = kind
Elems(s) == {s[i] : i \in 1..Len(s)}
Fields(errors) == {errors[i].field : i \in 1..Len(errors)}

StageRank(op) ==
    CASE op = "resolve" -> 1
      [] op = "validate_parameters" -> 2
      [] op = "load_curve" -> 3
      [] op = "validate_curve_type" -> 3
      [] op = "validate_depth_compatibility" -> 4
      [] op = "check_parameters" -> 5
      [] op = "can_execute" -> 6
      [] op = "prepare" -> 7
      [] op = "execute" -> 8
      [] op = "postprocess" -> 9

\* What the parameter contract calls an invalid value, stated without the
\* engine: a curve value that is not UUID-shaped, a numeric value that is not
\* a number or lies outside the inclusive bounds.
OutOfRange(def, x) ==
    x # NaN /\ ((def.min.some /\ x < def.min.v) \/ (def.max.some /\ x > def.max.v))
BadValue(def, value) ==
    IF def.kind = "curve"
    THEN ~(value.tag = "Curve" \/ (value.tag = "String" /\ value.v > 0))
    ELSE value.tag \notin {"Number", "Integer"} \/ OutOfRange(def, value.v)
Missing(def, values) ==
    def.name \notin DOMAIN values \/ values[def.name].tag \in {"Absent", "Null"}
HasDefault(def) == def.kind = "number" /\ def.default.some
InvalidParameter(def, values) ==
    IF Missing(def, values)
    THEN IF HasDefault(def) THEN OutOfRange(def, def.default.v) ELSE def.required
    ELSE BadValue(def, values[def.name])
InvalidNames(defs, values) ==
    {defs[i].name : i \in {j \in 1..Len(defs) : InvalidParameter(defs[j], values)}}

(***************************************************************************)
(* C1.  Original statement: every call to execute, on every path, the       *)
(* unregistered udf_id included, yields exactly one ExecutionRecord with a  *)
(* terminal status, and no error is returned in place of the record.        *)
(***************************************************************************)
YieldsOneRecord ==
    /\ result.kind = "Ok"
    /\ writes.records = 1
    /\ record.some
    /\ record.v.status \in Terminal
    /\ record.v.completed_at

C1_EveryCallYieldsRecord == Done => YieldsOneRecord

\* C1 as amended: a call whose udf_id is registered yields, on every path,
\* exactly one completed ExecutionRecord with a terminal status and returns
\* Ok; a call whose udf_id is not registered returns Err(UdfNotFound) and
\* builds no record.
C1_RecordOncePerResolvedCall ==
    Done =>
        IF Resolved THEN YieldsOneRecord
        ELSE /\ result.kind = "Err"
             /\ result.err.some
             /\ result.err.v.kind = "UdfNotFound"
             /\ writes.records = 0
             /\ ~record.some

C1_Witness == Done /\ Resolved /\ Failed /\ result.kind = "Ok" /\ record.some

(***************************************************************************)
(* C2.  Within one call the stages run in the order resolve, parameter      *)
(* validation, curve loading with type check, depth compatibility,          *)
(* check_parameters, can_execute, prepare, execute, postprocess, each at    *)
(* most once; after a stage fails no CurveLoader call and no hook follows,  *)
(* and no output is returned.                                               *)
(***************************************************************************)
StagesInOrder ==
    /\ \A i, j \in 1..Len(trace) :
          i < j =>
             /\ StageRank(trace[i].op) <= StageRank(trace[j].op)
             /\ StageRank(trace[i].op) = StageRank(trace[j].op) =>
                   /\ StageRank(trace[i].op) = 3
                   /\ trace[i].op = trace[j].op => trace[i].arg # trace[j].arg
    /\ \A j \in 1..Len(trace) :
          trace[j].op = "validate_curve_type" =>
             j > 1 /\ trace[j - 1] = Event("load_curve", trace[j].arg)
    /\ \A i \in 1..Len(trace) :
          \A r \in (1..(StageRank(trace[i].op) - 1)) \ {3} :
             \E k \in 1..(i - 1) : StageRank(trace[k].op) = r

C2_StagesOrderedFailFast ==
    /\ [](StagesInOrder /\ (Done /\ Failed => ~result.output))
    /\ [][Failed /\ pc' # "idle" => trace' = trace]_vars

C2_Witness == Done /\ AbortedWith("PreCheckFailed") /\ LastOp = "can_execute"

(***************************************************************************)
(* C3.  When a stage after resolve fails, execute returns a record with     *)
(* status Failed and the error's text as error_message, and no output; the  *)
(* output is present exactly when the status is Completed.                  *)
(***************************************************************************)
C3_FailureIsRecorded ==
    Done /\ record.some =>
        /\ Failed =>
              /\ result.kind = "Ok"
              /\ record.v.status = "Failed"
              /\ record.v.error_message.some
              /\ record.v.error_message.v = ErrorText(raised.v)
              /\ ~result.output
        /\ result.output <=> record.v.status = "Completed"

C3_Witness == Done /\ AbortedWith("PostProcessFailed") /\ LastOp = "postprocess"

(***************************************************************************)
(* C4.  Original statement: the status of a record is write-once; it is     *)
(* given a value a single time and never afterwards changed to another.     *)
(***************************************************************************)
C4_StatusWriteOnce ==
    [][record.some /\ record'.some => record'.v.status = record.v.status]_vars

\* C4 as amended: the status is set to Failed when the record is created and
\* is changed at most once afterwards, from Failed to Completed, in the step
\* that sets completed_at on the success path (no stage failed, the output is
\* returned); completed_at is set exactly once and the status never changes
\* after it.
C4_StatusSetThenCompletedOnce ==
    /\ [][record.some /\ record'.some /\ record'.v.status # record.v.status =>
            /\ record.v.status = "Failed"
            /\ record'.v.status = "Completed"
            /\ ~record.v.completed_at
            /\ record'.v.completed_at
            /\ ~raised'.some
            /\ result'.output]_vars
    /\ [](writes.status <= 2 /\ writes.completed_at <= 1)
    /\ [](Done /\ record.some => writes.completed_at = 1)

C4_Witness == Done /\ record.some /\ record.v.status = "Completed" /\ writes.status = 2

(***************************************************************************)
(* C5.  A record's status is Cancelled exactly when the execution was       *)
(* cancelled: a hook that aborts with the Cancelled error of                *)
(* check_cancelled gives a record with status Cancelled, every other path   *)
(* gives Completed or Failed.                                               *)
(***************************************************************************)
C5_CancelledStatus ==
    Done /\ record.some =>
        (record.v.status = "Cancelled" <=> AbortedWith("Cancelled"))

(***************************************************************************)
(* C6.  Original statement: stage 2 is not fail-fast, its error list holds  *)
(* an error for every declared parameter that is invalid, and execute       *)
(* aborts with ParameterValidation if and only if that list is non-empty.   *)
(***************************************************************************)
AllInvalidReported ==
    InvalidNames(Udf.defs, req.parameters) \subseteq Fields(stage2.v)

C6_AllErrorsAbortIff ==
    stage2.some =>
        /\ AllInvalidReported
        /\ Done => (AbortedWith("ParameterValidation") <=> Len(stage2.v) # 0)

\* C6 as amended: the error list of stage 2 holds an error for every declared
\* parameter that is invalid, and execute aborts at stage 2, with
\* ParameterValidation carrying that list and before any CurveLoader call or
\* hook, if and only if the list is non-empty (a ParameterValidation abort
\* can also come later, from check_parameters).
C6_AllErrorsAbortAtStage2Iff ==
    stage2.some =>
        /\ AllInvalidReported
        /\ Len(stage2.v) # 0 <=>
              /\ raised = Some(ParameterValidationError(stage2.v))
              /\ Ops(trace) = {"resolve", "validate_parameters"}
              /\ pc \in {"failed", "done"}

C6_Witness ==
    Done /\ stage2.some /\ Len(stage2.v) >= 2 /\ AbortedWith("ParameterValidation")

(***************************************************************************)
(* C7.  A required parameter with no supplied value (absent or Null) and    *)
(* no default always fails validation, with an error whose field is the     *)
(* parameter's name.                                                        *)
(***************************************************************************)
RequiredMissing(defs, values) ==
    {defs[i].name : i \in {j \in 1..Len(defs) :
        defs[j].required /\ ~HasDefault(defs[j]) /\ Missing(defs[j], values)}}

C7_RequiredMissingFails ==
    /\ stage2.some /\ RequiredMissing(Udf.defs, req.parameters) # {} =>
          /\ RequiredMissing(Udf.defs, req.parameters) \subseteq Fields(stage2.v)
          /\ pc \in {"failed", "done"}
          /\ AbortedWith("ParameterValidation")
          /\ Done => record.v.status = "Failed" /\ ~result.output
    /\ vo.called /\ vo.ok =>
          RequiredMissing(Udf.defs, req.parameters) \subseteq Fields(vo.errors)

C7_Witness ==
    /\ Done /\ req.udf_id = "petro:vshale_linear"
    /\ req.parameters["gr_min"] = Absent /\ req.parameters["gr_max"] = Null
    /\ Fields(stage2.v) = {"gr_min", "gr_max"}

(***************************************************************************)
(* C8.  A default is used only for a Null or absent value: a non-Null       *)
(* value that is invalid always produces a validation error, also when the  *)
(* definition has a valid default; it is never replaced by the default.     *)
(***************************************************************************)
InvalidDespiteDefault(defs, values) ==
    {defs[i].name : i \in {j \in 1..Len(defs) :
        /\ HasDefault(defs[j]) /\ ~OutOfRange(defs[j], defs[j].default.v)
        /\ ~Missing(defs[j], values)
        /\ BadValue(defs[j], values[defs[j].name])}}

C8_InvalidValueNotDefaulted ==
    stage2.some /\ InvalidDespiteDefault(Udf.defs, req.parameters) # {} =>
        /\ InvalidDespiteDefault(Udf.defs, req.parameters) \subseteq Fields(stage2.v)
        /\ AbortedWith("ParameterValidation")
        /\ ~ctx.built
        /\ Done => record.v.status = "Failed" /\ ~result.output

C8_Witness ==
    /\ Done /\ req.udf_id = "core:moving_average"
    /\ req.parameters["window_size"] = PV("Number", 102)
    /\ "window_size" \in Fields(stage2.v)

(***************************************************************************)
(* C9.  validate_only runs stage 2 alone: it calls neither the CurveLoader  *)
(* nor a UDF hook, and for a registered UDF it returns exactly the error    *)
(* list stage 2 of execute computes for the same UDF and parameters.        *)
(***************************************************************************)
C9_ValidateOnlyIsStage2 ==
    vo.called =>
        /\ Ops(vo.calls) \subseteq {"resolve", "validate_parameters"}
        /\ vo.ok <=> Resolved
        /\ Resolved => stage2.some /\ vo.errors = stage2.v

C9_Witness == vo.called /\ vo.ok /\ Len(vo.errors) >= 2 /\ stage2.some

(***************************************************************************)
(* C10.  A loaded curve whose classification is not in the non-empty        *)
(* allowed-type set of its parameter makes the execution fail with          *)
(* CurveTypeMismatch before any hook runs; an empty allowed-type set        *)
(* accepts every classification.                                            *)
(***************************************************************************)
DefNamed(name) ==
    Udf.defs[CHOOSE i \in 1..Len(Udf.defs) : Udf.defs[i].name = name]

\* the load_curve calls that returned a curve of a classification that the
\* parameter does not allow
TypeViolations ==
    {k \in 1..Len(trace) :
        /\ trace[k].op = "load_curve"
        /\ req.parameters[trace[k].arg].v \in DOMAIN CurveStore
        /\ DefNamed(trace[k].arg).allowed_types # <<>>
        /\ CurveStore[req.parameters[trace[k].arg].v].curve_type
              \notin Elems(DefNamed(trace[k].arg).allowed_types)}

C10_TypeMismatchAborts ==
    /\ TypeViolations # {} =>
          /\ AbortedWith("CurveTypeMismatch")
          /\ Ops(trace) \cap HookOps = {}
          /\ ~ctx.built
          /\ Done => record.v.status = "Failed" /\ ~result.output
    /\ TypeViolations = {} => ~AbortedWith("CurveTypeMismatch")

C10_Witness ==
    Done /\ AbortedWith("CurveTypeMismatch") /\ LastOp = "validate_curve_type"

(***************************************************************************)
(* C11. Two bound curves with distinct depth storage: different lengths     *)
(* fail with IncompatibleData naming the curve and both sample counts;      *)
(* equal lengths with a pair of depths more than 1e-6 apart fail with       *)
(* IncompatibleData naming the lowest diverging index; validation succeeds  *)
(* only when every pair of depths is within 1e-6.                           *)
(***************************************************************************)
DepthRan == "validate_depth_compatibility" \in Ops(trace)
DepthFailed == LastOp = "validate_depth_compatibility" /\ Failed
DepthPassed == DepthRan /\ ~DepthFailed

Apart(d1, d2) == FGt(FAbs(FSub(d1, d2)), DepthTolerance)
Within(d1, d2) == FLe(FAbs(FSub(d1, d2)), DepthTolerance)

SamplesMessage(name, curve, ref) ==
    <<"Curve '", name, "' has ", ToString(Len(curve.depths)),
      " samples, expected ", ToString(Len(ref.depths))>>

LowestApart(c1, c2) ==
    Min({i \in 1..Len(c1.depths) : Apart(c1.depths[i], c2.depths[i])})

MismatchMessage(name, curve, ref) ==
    LET i == LowestApart(ref, curve)
    IN <<"Depth mismatch at index ", ToString(i - 1), " for curve '", name,
         "': ", ToString(ref.depths[i]), " vs ", ToString(curve.depths[i])>>

TwoDistinctlyStored(n1, n2) ==
    /\ DepthRan
    /\ DOMAIN ctx.curves = {n1, n2}
    /\ n1 # n2
    /\ CurveStore[ctx.curves[n1]].depths_ptr # CurveStore[ctx.curves[n2]].depths_ptr

C11_DepthCompatibility ==
    \A n1, n2 \in DOMAIN ctx.curves :
        TwoDistinctlyStored(n1, n2) =>
            LET c1 == CurveStore[ctx.curves[n1]]
                c2 == CurveStore[ctx.curves[n2]]
            IN /\ Len(c1.depths) # Len(c2.depths) =>
                    /\ DepthFailed
                    /\ raised.v.kind = "IncompatibleData"
                    /\ raised.v.detail \in {SamplesMessage(n1, c1, c2),
                                            SamplesMessage(n2, c2, c1)}
               /\ ( /\ Len(c1.depths) = Len(c2.depths)
                    /\ \E i \in 1..Len(c1.depths) : Apart(c1.depths[i], c2.depths[i]) )
                  => /\ DepthFailed
                     /\ raised.v.kind = "IncompatibleData"
                     /\ raised.v.detail \in {MismatchMessage(n1, c1, c2),
                                             MismatchMessage(n2, c2, c1)}
               /\ DepthPassed =>
                    /\ Len(c1.depths) = Len(c2.depths)
                    /\ \A i \in 1..Len(c1.depths) : Within(c1.depths[i], c2.depths[i])

(***************************************************************************)
(* C12. The execute hook is invoked only after check_parameters returned    *)
(* no errors, then can_execute returned true, then prepare returned true;   *)
(* a non-empty check_parameters list aborts with ParameterValidation, and   *)
(* can_execute or prepare returning false aborts with PreCheckFailed.       *)
(***************************************************************************)
Position(event) ==
    IF \E i \in 1..Len(trace) : trace[i] = event
    THEN Min({i \in 1..Len(trace) : trace[i] = event})
    ELSE 0

LastEvent == IF Len(trace) = 0 THEN Event("", "") ELSE trace[Len(trace)]

Refusals ==
    {Event("check_parameters", "errors"), Event("can_execute", "false"),
     Event("prepare", "false")}

C12_ExecuteAfterGates ==
    /\ \A k \in 1..Len(trace) :
          trace[k].op = "execute" =>
             /\ 0 < Position(Event("check_parameters", "ok"))
             /\ Position(Event("check_parameters", "ok"))
                   < Position(Event("can_execute", "true"))
             /\ Position(Event("can_execute", "true"))
                   < Position(Event("prepare", "true"))
             /\ Position(Event("prepare", "true")) < k
    /\ \A i \in 1..Len(trace) :
          trace[i] \in Refusals =>
             /\ i = Len(trace)
             /\ AbortedWith(IF trace[i].op = "check_parameters"
                            THEN "ParameterValidation" ELSE "PreCheckFailed")

C12_Witness ==
    /\ Done
    /\ req.udf_id = "plugin:custom"
    /\ "execute" \in Ops(trace)

(***************************************************************************)
(* C13. Through the engine no shipped UDF's execute hook is reached with a  *)
(* zero-width input range: LinearScale.execute never runs when              *)
(* |in_max - in_min| < 1e-10, the VShale execute hooks never run when       *)
(* gr_max <= gr_min, so the range divisor is never zero.                    *)
(***************************************************************************)
VShaleIds == {"petro:vshale_linear", "petro:vshale_clavier", "petro:vshale_steiber"}

ExecuteReached == "execute" \in Ops(trace)

C13_NoZeroWidthRange ==
    ExecuteReached =>
       /\ req.udf_id = "core:linear_scale" =>
             /\ get_f64(req.parameters, "in_min").some
             /\ get_f64(req.parameters, "in_max").some
             /\ ~FLt(FAbs(FSub(get_f64(req.parameters, "in_max").v,
                               get_f64(req.parameters, "in_min").v)), RangeEpsilon)
             /\ range_divisor(Udf, req.parameters) # 0
       /\ req.udf_id \in VShaleIds =>
             /\ get_f64(req.parameters, "gr_min").some
             /\ get_f64(req.parameters, "gr_max").some
             /\ ~FLe(get_f64(req.parameters, "gr_max").v,
                     get_f64(req.parameters, "gr_min").v)
             /\ range_divisor(Udf, req.parameters) # 0

C13_Witness ==
    /\ Done
    /\ ExecuteReached
    /\ req.udf_id = "core:linear_scale"
    /\ record.v.status = "Completed"

(***************************************************************************)
(* The last registration call, as the properties below speak of it          *)
(***************************************************************************)
Registered == reg.op # ""
Candidate == ProviderByKey(reg.provider)
CompositeIds(provider) ==
    {full_id(provider.id, provider.udfs[i].id) : i \in 1..Len(provider.udfs)}

(***************************************************************************)
(* C14. register_provider with a provider whose id is already registered    *)
(* fails with an error, and the provider registered before and its UDFs     *)
(* stay registered, unchanged.                                              *)
(***************************************************************************)
IdTaken == Registered /\ Candidate.id \in DOMAIN reg.before.providers

C14_DuplicateProviderRejected ==
    IdTaken =>
       /\ ~reg.ok
       /\ reg.err.some
       /\ get_provider(registry, Candidate.id)
             = get_provider(reg.before, Candidate.id)
       /\ \A id \in DOMAIN reg.before.udfs :
             /\ registry_get_udf(registry, id) = registry_get_udf(reg.before, id)
             /\ get_udf_provider(registry, id) = get_udf_provider(reg.before, id)

C14_Witness ==
    /\ IdTaken
    /\ reg.provider = "SecondPetroProvider"
    /\ get_provider(registry, "petro") = Some("PetrophysicsProvider")
    /\ udf_count(registry) >= 3

(***************************************************************************)
(* C15. register_provider rejects a UDF whose composite id                  *)
(* "<provider_id>:<udf_id>" is already in the registry, also when one       *)
(* provider's load_udfs returns the same id twice; a composite id maps to   *)
(* at most one UDF and a mapping that exists is never overwritten.          *)
(***************************************************************************)
RepeatsAnId(provider) ==
    \E i, j \in 1..Len(provider.udfs) :
        i # j /\ provider.udfs[i].id = provider.udfs[j].id

LoadsTakenId ==
    /\ Registered
    /\ reg.calls = <<"is_available", "load_udfs">>
    /\ \/ CompositeIds(Candidate) \cap DOMAIN reg.before.udfs # {}
       \/ RepeatsAnId(Candidate)

MappingsKept ==
    \A id \in DOMAIN registry.udfs :
        /\ id \in DOMAIN registry'.udfs
        /\ registry'.udfs[id] = registry.udfs[id]

C15_DuplicateUdfRejected ==
    /\ [](LoadsTakenId => ~reg.ok /\ reg.err.some)
    /\ [][MappingsKept]_vars

C15_Witness ==
    /\ LoadsTakenId
    /\ reg.provider = "RepeatingProvider"
    /\ ~reg.ok

C15_WitnessAcrossProviders ==
    /\ LoadsTakenId
    /\ reg.provider = "InnerProvider"
    /\ "x:y:z" \in DOMAIN reg.before.udfs

C17_RegistrationIsVisible ==
    /\ provider_count(UdfRegistry_new) = 0
    /\ udf_count(UdfRegistry_new) = 0
    /\ (reg.op = "" /\ listing.op = "" /\ pc = "startup" =>
           provider_count(registry) = 0 /\ udf_count(registry) = 0)
    /\ (Registered /\ reg.ok =>
          /\ get_provider(registry, Candidate.id) = Some(Candidate.key)
          /\ \A i \in 1..Len(Candidate.udfs) :
                registry_get_udf(registry,
                                 full_id(Candidate.id, Candidate.udfs[i].id))
                   = Some(UdfObject(Candidate, i))
          /\ provider_count(registry) = provider_count(reg.before) + 1
          /\ udf_count(registry) = udf_count(reg.before) + Len(Candidate.udfs))

C17_Witness ==
    /\ Registered
    /\ reg.ok
    /\ reg.provider = "CoreProvider"
    /\ provider_count(reg.before) = 1
    /\ udf_count(registry) = 6

(***************************************************************************)
(* C18. The registry changes only through register_provider: the listing    *)
(* and lookup operations and the engine operations (execute,                *)
(* validate_only, get_parameter_definitions) leave the registered           *)
(* providers and UDFs unchanged.                                            *)
(***************************************************************************)
C18_OnlyRegistrationChangesRegistry ==
    /\ [][listing'.op # "" => registry' = registry]_vars
    /\ [][registry' # registry =>
             reg'.op \in {"register_provider", "register_builtin_providers"}]_vars

C18_Witness ==
    /\ pc = "serving"
    /\ listing.op = "search_udfs"
    /\ listing.result # {}

C18_WitnessEngine ==
    /\ pc = "serving"
    /\ listing.op = "execute"
    /\ listing.found

(***************************************************************************)
(* C19. After the startup registration of the built-in providers every      *)
(* shipped UDF resolves by its composite id: core:moving_average,           *)
(* core:linear_scale, core:depth_resample, petro:vshale_linear,             *)
(* petro:vshale_clavier and petro:vshale_steiber.                           *)
(***************************************************************************)
ShippedIds ==
    {"core:moving_average", "core:linear_scale", "core:depth_resample",
     "petro:vshale_linear", "petro:vshale_clavier", "petro:vshale_steiber"}

StartupDone ==
    /\ reg.op = "register_builtin_providers"
    /\ reg.ok
    /\ reg.before = UdfRegistry_new

C19_ShippedUdfsResolve ==
    StartupDone => \A id \in ShippedIds : registry_get_udf(registry, id).some

(***************************************************************************)
(* C20. write_parquet_blob is idempotent: a call made with bytes for which  *)
(* an earlier call already returned Ok returns Ok with the same hash and    *)
(* the same path, and no step of that call changes the blob store: no file  *)
(* is added, no name moves, no content is rewritten.                        *)
(***************************************************************************)
SecondCall(w) == wr[w].pc # "idle" /\ wr[w].second
ReturnedAgain(w) == SecondCall(w) /\ wr[w].pc = "return"
StepOf(w) == wr'[w] # wr[w]

C20_WriteIsIdempotent ==
    /\ [](\A w \in Writers :
            ReturnedAgain(w) =>
                /\ wr[w].result.ok
                /\ wr[w].result = written[wr[w].bytes]
                /\ wr[w].result.hash = Sha256Hex(create_parquet_bytes(wr[w].output))
                /\ wr[w].result.path = blob_path_of(wr[w].result.hash))
    /\ [][\A w \in Writers : SecondCall(w) /\ StepOf(w) => fs' = fs]_vars

C20_Witness ==
    \E w \in Writers :
        /\ ReturnedAgain(w)
        /\ wr[w].calls = 2
        /\ exists(fs, blob_path(w))
        /\ Contents(fs, blob_path(w)) = Blocks(wr[w].bytes)

\* the same bytes from an output that differs in its mnemonic only
C20_WitnessOtherMnemonic ==
    \E w \in Writers :
        /\ ReturnedAgain(w)
        /\ wr[w].output = OutC
        /\ written[wr[w].bytes].ok

(***************************************************************************)
(* C21. While callers take turns, at every point during and after a call    *)
(* of write_parquet_blob, failed ones included, a content-addressed path    *)
(* that exists holds the complete bytes whose digest is its name; content   *)
(* that is not complete lies at a temporary sibling only; and a rename that *)
(* fails removes the temporary file and returns the io error.               *)
(***************************************************************************)
RECURSIVE FlatBytes(_)
FlatBytes(blocks) ==
    IF Len(blocks) = 0 THEN <<>> ELSE Head(blocks) \o FlatBytes(Tail(blocks))
IsBlobPath(path) == path.ext = "parquet"
IsTempPath(path) == path.ext = "parquet.tmp"
CompleteAt(path) ==
    /\ Len(Contents(fs, path)) = 2
    /\ Hole \notin Elems(Contents(fs, path))
    /\ HexText(Sha256Hex(FlatBytes(Contents(fs, path)))) = path.stem
    /\ path.dir = blob_path_of(Sha256Hex(FlatBytes(Contents(fs, path)))).dir
RenameFailed(w) ==
    wr[w].pc = "rename" /\ wr'[w].pc = "return" /\ ~wr'[w].result.ok

C21_WitnessRenameFailed ==
    \E w \in Writers :
        /\ wr[w].pc = "return"
        /\ wr[w].result.err.some
        /\ wr[w].result.err.v.detail = <<"rename">>
        /\ ~exists(fs, temp_path(w))
        /\ \E path \in DOMAIN fs.names : IsBlobPath(path)

(***************************************************************************)
(* C22. commit_execution writes the blob before it registers the curve: a   *)
(* row enters the curves table only when the blob of its hash is in the     *)
(* store.  After a commit that returned Ok the record's output_parquet_hash *)
(* is the hash of the written blob, its output_curve_id is the id of the    *)
(* row the commit added, and that row is marked derived with                *)
(* source_execution_id equal to the record's id.                            *)
(***************************************************************************)
Committed == cm.pc = "return" /\ cm.result.ok
LastRow == db[Len(db)]
RowIds(rows) == {rows[i].id : i \in 1..Len(rows)}

C22_BlobThenCurve ==
    /\ [][db' # db =>
            /\ db' = Append(db, db'[Len(db')])
            /\ cm.steps = <<"write_parquet_blob">>
            /\ exists(fs, blob_path_of(db'[Len(db')].parquet_hash))
            /\ db'[Len(db')].id \notin RowIds(db)]_vars
    /\ [](Committed =>
            /\ cm.steps = <<"write_parquet_blob", "register_curve">>
            /\ cm.record.output_parquet_hash
                 = Some(Sha256Hex(create_parquet_bytes(cm.output)))
            /\ cm.record.output_parquet_hash = Some(cm.result.parquet_hash)
            /\ exists(fs, blob_path_of(cm.result.parquet_hash))
            /\ cm.result.blob_path = blob_path_of(cm.result.parquet_hash)
            /\ Len(db) > 0
            /\ cm.record.output_curve_id = Some(LastRow.id)
            /\ cm.result.curve_id = LastRow.id
            /\ LastRow.is_derived
            /\ LastRow.source_execution_id = cm.record.id
            /\ LastRow.parquet_hash = cm.result.parquet_hash
            /\ cm.record.id = cm.before.id)

\* a record that carried the stamps of an earlier commit is committed again
C22_Witness ==
    /\ Committed
    /\ cm.before.output_curve_id.some
    /\ cm.before.output_parquet_hash # cm.record.output_parquet_hash
    /\ Len(db) = 2

\* the commit of an output whose blob was in the store already
C22_WitnessExistingBlob ==
    /\ Committed
    /\ Len(db) = 2
    /\ db[1].parquet_hash = db[2].parquet_hash
    /\ db[1].id # db[2].id

(***************************************************************************)
(* C23. A cancellation requested through cancel_execution for an execution  *)
(* that is in flight is observed by it: from the request on, is_cancelled() *)
(* on the context of the executing UDF is true, and a check_cancelled() of  *)
(* the UDF returns the Cancelled error.                                     *)
(***************************************************************************)
InFlight(c) == call[c].pc = "udf"
CancelRequested(c) ==
    /\ call[c].execution_id \in DOMAIN active
    /\ heap.tokens[active[call[c].execution_id].cancel_token]
ContextIsCancelled(c) == heap.tokens[call[c].context_token]

C23_CancellationObserved ==
    /\ [](\A c \in Callers : InFlight(c) /\ CancelRequested(c) => ContextIsCancelled(c))
    /\ [][\A c \in Callers :
            InFlight(c) /\ CancelRequested(c) /\ call'[c].check # call[c].check
                => call'[c].check = "Cancelled"]_vars

(***************************************************************************)
(* C24. What get_execution_progress answers for the id of an execution in   *)
(* flight is the progress and the message the executing UDF last reported   *)
(* through its context.                                                     *)
(***************************************************************************)
ReportedByUdf(c) == heap.progress[call[c].context_progress]
ProgressAnswered ==
    obs' # obs /\ obs'.op = "get_execution_progress" /\ obs'.found

C24_ProgressObserved ==
    [][\A c \in Callers :
         ProgressAnswered /\ InFlight(c) /\ obs'.execution_id = call[c].execution_id
             => /\ obs'.answer[1].progress = ReportedByUdf(c).progress
                /\ obs'.answer[1].message = ReportedByUdf(c).message]_vars

(***************************************************************************)
(* C25. Every CurveData that load_curve returns has as many depths as       *)
(* values, whatever loads came before it, also when its depth array is the  *)
(* one held in the per-well depth cache.                                    *)
(***************************************************************************)
Returned(i) == loads[i].ok
FromCache(i) == \E j \in 1..(i - 1) : Returned(j) /\ loads[j].depths.ptr = loads[i].depths.ptr

C25_DepthsMatchValues ==
    \A i \in 1..Len(loads) :
        Returned(i) => Len(loads[i].depths.v) = Len(loads[i].values)

\* a load served from the cache after a load of another length replaced the entry
C25_Witness ==
    /\ Len(loads) = 3
    /\ Returned(1) /\ Returned(2) /\ Returned(3)
    /\ Len(loads[1].values) # Len(loads[2].values)
    /\ FromCache(3)
    /\ loads[3].curve_id # loads[2].curve_id

(***************************************************************************)
(* C26. On a successful execution the inputs of the record are, in some     *)
(* order, one InputReference for each curve parameter of the UDF that has a *)
(* bound curve, each carrying the id, the version and the content hash of   *)
(* the curve bound to that parameter.                                       *)
(***************************************************************************)
Succeeded == Done /\ record.some /\ record.v.status = "Completed"
BoundCurve(def) ==
    /\ def.kind = "curve"
    /\ def.name \in DOMAIN req.parameters
    /\ req.parameters[def.name].tag \in {"Curve", "String"}
BoundNames == {Udf.defs[i].name : i \in {j \in 1..Len(Udf.defs) : BoundCurve(Udf.defs[j])}}
ReferenceOf(name) ==
    LET curve == CurveStore[req.parameters[name].v]
    IN [curve_id |-> curve.curve_id, version |-> curve.version,
        parquet_hash |-> curve.parquet_hash]

C26_WitnessSameCurve ==
    /\ Succeeded
    /\ Len(record.v.inputs) = 2
    /\ record.v.inputs[1] = record.v.inputs[2]

(***************************************************************************)
(* C27. Curve binding in an ExecutionContext is write-once: an add_curve    *)
(* for a name that is bound leaves the curve bound to it in place, and the  *)
(* InputReferences are always as many as the bound curves.                  *)
(***************************************************************************)
C27_WriteOnceBinding ==
    /\ [](Len(ctx.input_refs) = Cardinality(DOMAIN ctx.curves))
    /\ [][\A name \in DOMAIN ctx.curves :
            name \in DOMAIN ctx'.curves /\ ctx'.curves[name] = ctx.curves[name]]_vars

(***************************************************************************)
(* C28. When the execute hook of a UDF is invoked, every curve bound to a   *)
(* CurveParameter meets what the parameter declares: at least min_length    *)
(* samples when a minimum length is declared, no null value when            *)
(* allow_nulls is false.                                                    *)
(***************************************************************************)
HasNull(values) == \E i \in 1..Len(values) : ~values[i].some
MeetsConstraints(def, curve) ==
    /\ def.min_length.some => Len(curve.depths) >= def.min_length.v
    /\ ~def.allow_nulls => ~HasNull(curve.values)

C28_DataConstraintsHold ==
    "execute" \in Ops(trace) =>
        \A i \in 1..Len(Udf.defs) :
            Udf.defs[i].kind = "curve" /\ Udf.defs[i].name \in DOMAIN ctx.curves
                => MeetsConstraints(Udf.defs[i], CurveStore[ctx.curves[Udf.defs[i].name]])

(***************************************************************************)
(* C29: moving average over any input and window w gives an output as long *)
(* as the input, in which output[i] is null exactly when every sample of   *)
(* the window [i - floor(w/2), i + floor(w/2)], clamped to the input, is   *)
(* null, and is otherwise the mean of the non-null samples of that window  *)
(* (a NaN sample makes the mean NaN; the mean is given to the last place). *)
(***************************************************************************)
AverageReturned == hook.returned /\ hook.udf = "moving_average"

\* the window the caller asked for: the definition's default is 5
WindowAsked ==
    IF hook.parameters["window_size"] = Absent THEN 5
    ELSE hook.parameters["window_size"].v

ClampedWindow(i) ==
    {j \in 1..Len(hook.values) :
        /\ i - (WindowAsked \div 2) <= j
        /\ j <= i + (WindowAsked \div 2)}

NonNullOf(i) == {j \in ClampedWindow(i) : hook.values[j].some}

RECURSIVE SampleSum(_)
SampleSum(idx) ==
    IF idx = {} THEN 0
    ELSE LET j == CHOOSE k \in idx : TRUE
         IN hook.values[j].v + SampleSum(idx \ {j})

IsMeanOf(m, idx) ==
    IF \E j \in idx : hook.values[j].v = NaN THEN m = NaN
    ELSE LET off == m * Cardinality(idx) - SampleSum(idx)
         IN /\ m # NaN
            /\ 2 * off <= Cardinality(idx)
            /\ 2 * (0 - off) <= Cardinality(idx)

C29_MovingAverageSkipsNulls ==
    AverageReturned =>
        /\ hook.output.ok
        /\ Len(hook.output.v) = Len(hook.values)
        /\ \A i \in 1..Len(hook.values) :
              /\ hook.output.v[i].some <=> NonNullOf(i) # {}
              /\ NonNullOf(i) # {} => IsMeanOf(hook.output.v[i].v, NonNullOf(i))

\* a sample of the output is the mean of a window that holds a null and two
\* different numbers and is cut by the end of the input
C29_Witness ==
    /\ AverageReturned
    /\ Len(hook.values) = MaxLen
    /\ \E k \in 1..Len(hook.values) :
          /\ hook.output.v[k] = Some(18)
          /\ Cardinality(ClampedWindow(k)) < WindowAsked
          /\ ClampedWindow(k) # NonNullOf(k)
          /\ {hook.values[j].v : j \in NonNullOf(k)} = {12, 24}

\* an even window, floor(4 / 2) = 2 samples on each side: one output sample is
\* null although the input has numbers, another skips the nulls of its window
C29_WitnessEvenWindow ==
    /\ AverageReturned
    /\ WindowAsked = 4
    /\ \E i, k \in 1..Len(hook.values) :
          /\ ~hook.output.v[i].some
          /\ ClampedWindow(i) # {}
          /\ ClampedWindow(k) # NonNullOf(k)
          /\ hook.output.v[k] = Some(24)

(***************************************************************************)
(* C30: linear normalisation maps the range endpoints exactly.  For every  *)
(* gr_min < gr_max VShale Linear maps a sample equal to gr_min to 0 and a  *)
(* sample equal to gr_max to 1; LinearScale maps in_min to out_min and     *)
(* in_max to out_max; a null sample stays null.                            *)
(***************************************************************************)
Given(name) == hook.parameters[name] # Absent
NumberGiven(name, dflt) ==
    IF Given(name) THEN hook.parameters[name].v ELSE dflt

VShaleRanged ==
    /\ hook.returned /\ hook.udf = "vshale_linear"
    /\ Given("gr_min") /\ Given("gr_max")
    /\ NumberGiven("gr_min", 0) < NumberGiven("gr_max", 0)

ScaleRanged ==
    /\ hook.returned /\ hook.udf = "linear_scale"
    /\ Given("in_min") /\ Given("in_max")
    /\ NumberGiven("in_min", 0) < NumberGiven("in_max", 0)

\* every sample equal to `from` came out as `to`
Maps(from, to) ==
    \A i \in 1..Len(hook.values) :
        hook.values[i] = Some(from) => hook.output.v[i] = Some(to)

NullsStay ==
    /\ hook.output.ok
    /\ Len(hook.output.v) = Len(hook.values)
    /\ \A i \in 1..Len(hook.values) : ~hook.values[i].some => ~hook.output.v[i].some

C30_EndpointsExact ==
    /\ VShaleRanged =>
          /\ NullsStay
          /\ Maps(NumberGiven("gr_min", 0), 0)
          /\ Maps(NumberGiven("gr_max", 0), 1)
    /\ ScaleRanged =>
          /\ NullsStay
          /\ Maps(NumberGiven("in_min", 0), NumberGiven("out_min", 0))
          /\ Maps(NumberGiven("in_max", 0), NumberGiven("out_max", 1))

\* C30 as amended: the endpoints are mapped exactly when the ranges are finite
\* f64 numbers and, for the upper end of LinearScale, out_max - out_min is
\* computed without rounding
FiniteRange(lo, hi) == ~IsInfinite(f64_sub(hi, lo))
ExactRange(lo, hi) == f64_sub(hi, lo) = hi - lo

C30_EndpointsExactInFiniteRanges ==
    /\ VShaleRanged =>
          /\ NullsStay
          /\ FiniteRange(NumberGiven("gr_min", 0), NumberGiven("gr_max", 0)) =>
                /\ Maps(NumberGiven("gr_min", 0), 0)
                /\ Maps(NumberGiven("gr_max", 0), 1)
    /\ ScaleRanged =>
          /\ NullsStay
          /\ /\ FiniteRange(NumberGiven("in_min", 0), NumberGiven("in_max", 0))
             /\ FiniteRange(NumberGiven("out_min", 0), NumberGiven("out_max", 1))
             => Maps(NumberGiven("in_min", 0), NumberGiven("out_min", 0))
          /\ /\ FiniteRange(NumberGiven("in_min", 0), NumberGiven("in_max", 0))
             /\ ExactRange(NumberGiven("out_min", 0), NumberGiven("out_max", 1))
             => Maps(NumberGiven("in_max", 0), NumberGiven("out_max", 1))

\* VShale Linear over a curve that holds both endpoints and a null, with a
\* range gr_max - gr_min that is rounded
C30_Witness ==
    /\ VShaleRanged
    /\ FiniteRange(NumberGiven("gr_min", 0), NumberGiven("gr_max", 0))
    /\ ~ExactRange(NumberGiven("gr_min", 0), NumberGiven("gr_max", 0))
    /\ \E i, j, k \in 1..Len(hook.values) :
          /\ hook.values[i] = Some(NumberGiven("gr_min", 0))
          /\ hook.values[j] = Some(NumberGiven("gr_max", 0))
          /\ ~hook.values[k].some
          /\ hook.output.v[i] = Some(0)
          /\ hook.output.v[j] = Some(1)

\* LinearScale onto [0, 128] of a curve that holds both endpoints and a null
C30_WitnessLinearScale ==
    /\ ScaleRanged
    /\ NumberGiven("out_min", 0) = 0
    /\ NumberGiven("out_max", 1) = 128
    /\ \E i, j, k \in 1..Len(hook.values) :
          /\ hook.values[i] = Some(NumberGiven("in_min", 0))
          /\ hook.values[j] = Some(NumberGiven("in_max", 0))
          /\ ~hook.values[k].some
          /\ hook.output.v[i] = Some(0)
          /\ hook.output.v[j] = Some(128)

(***************************************************************************)
(* C31: VShale Linear emits the out-of-range warning exactly when more     *)
(* than 5% of the computed (non-null) output values fall outside [0, 1],   *)
(* also for input curves that hold null samples.                           *)
(***************************************************************************)
VShaleComputed ==
    /\ hook.returned /\ hook.udf = "vshale_linear"
    /\ hook.output.ok

Computed == {i \in 1..Len(hook.values) : hook.output.v[i].some}

OutsideUnit ==
    {i \in Computed : FLt(hook.output.v[i].v, 0) \/ FGt(hook.output.v[i].v, 1)}

C31_WarningAboveFivePercent ==
    VShaleComputed =>
        (hook.warnings # <<>> <=>
            100 * Cardinality(OutsideUnit) > 5 * Cardinality(Computed))

(***************************************************************************)
(* C32: the parameters the hooks read from the ExecutionContext are the    *)
(* validated values: for every declared parameter whose supplied value is  *)
(* absent or Null and whose definition has a default, the context holds    *)
(* that default.                                                           *)
(***************************************************************************)
Defaulted ==
    {i \in 1..Len(Udf.defs) :
        /\ is_null(supplied(Udf.defs[i], req.parameters))
        /\ default_value(Udf.defs[i]).some}

C32_ContextHoldsDefaults ==
    ctx.built /\ get_udf(req.udf_id).some =>
        \A i \in Defaulted :
            MapGet(ctx.parameters, Udf.defs[i].name) = default_value(Udf.defs[i])

(***************************************************************************)
(* C33: the execution_id execute_udf returns, under which the execution is *)
(* tracked in the active-executions table, is the id of the               *)
(* ExecutionRecord the engine made for that call.                          *)
(***************************************************************************)
\* the engine made a record for caller c's call
HasRecord(c) == call[c].record_id # 0

C33_ExecutionIdIsRecordId ==
    \A c \in Callers :
        /\ call[c].pc = "udf" /\ HasRecord(c) =>
              call[c].record_id \in DOMAIN active
        /\ call[c].pc \in {"remove", "return"} /\ HasRecord(c) /\ call[c].result.ok =>
              call[c].result.execution_id = call[c].record_id

(***************************************************************************)
(* C34: registration is atomic.  A register_provider call that returns an  *)
(* error leaves the registry exactly as it was before the call, and every  *)
(* resolvable UDF belongs to a registered provider.                        *)
(***************************************************************************)
RegistrationFailed == reg.op # "" /\ ~reg.ok

C34_RegistrationIsAtomic ==
    /\ RegistrationFailed => registry = reg.before
    /\ \A id \in DOMAIN registry.udfs : get_udf_provider(registry, id).some

(***************************************************************************)
(* C35: the outcome of depth-compatibility validation (success, or         *)
(* IncompatibleData) for three or more bound curves is the same whichever  *)
(* bound curve is taken as the reference: it does not depend on the order  *)
(* in which the bound curves are iterated.                                 *)
(***************************************************************************)
\* a step that validates a context of three or more bound curves
ValidatesThree ==
    /\ trace = <<>>
    /\ trace' = <<Event("validate_depth_compatibility", "")>>
    /\ Cardinality(DOMAIN ctx.curves) >= 3

C35_DepthOutcomeIsOrderFree ==
    [][ValidatesThree =>
          \A order \in Orders(DOMAIN ctx.curves) :
              validate_depth_compatibility(order, ctx.curves).some = raised'.some]_vars

(***************************************************************************)
(* C36: every CurveData returned by load_curve carries the depth sequence  *)
(* read from that curve's own blob, also when the depth array is served    *)
(* from the per-well cache: two curves share one depth object only if      *)
(* their depth sequences are equal.                                        *)
(***************************************************************************)
\* the depths of a curve as its blob holds them, in depth order
OwnDepths(curve_id) == read_depths(order_by_depth(Curves[curve_id].rows))

Loaded == {i \in 1..Len(loads) : loads[i].ok}

C36_CachedDepthsAreOwnDepths ==
    /\ \A i \in Loaded : loads[i].depths.v = OwnDepths(loads[i].curve_id)
    /\ \A i, j \in Loaded :
          loads[i].depths.ptr = loads[j].depths.ptr =>
              OwnDepths(loads[i].curve_id) = OwnDepths(loads[j].curve_id)

(***************************************************************************)
(* C37: after commit_execution returns, with success or with an error, the *)
(* record's output_curve_id and output_parquet_hash are either both set or *)
(* both unset; a failed commit leaves the record as it was before the call.*)
(***************************************************************************)
CommitReturned == cm.pc = "return"

C37_RecordStampedTogether ==
    CommitReturned =>
        /\ cm.record.output_curve_id.some <=> cm.record.output_parquet_hash.some
        /\ ~cm.result.ok => cm.record = cm.before

(***************************************************************************)
(* C38: when two callers run write_parquet_blob concurrently for identical *)
(* output, under every interleaving of their file operations both calls    *)
(* return the same hash and path, and the blob finally present at the      *)
(* content-addressed path contains the complete serialized bytes.          *)
(***************************************************************************)
\* the first calls of w and v, for the same bytes, have both reached their
\* return while the other was in flight, and no operation of either was
\* refused by the operating system
BothReturned(w, v) ==
    /\ w # v
    /\ wr[w].pc = "return" /\ wr[v].pc = "return"
    /\ wr[w].calls = 1 /\ wr[v].calls = 1
    /\ wr[w].bytes = wr[v].bytes
    /\ ~wr[w].faulted /\ ~wr[v].faulted

C38_ConcurrentWritersAgree ==
    \A w, v \in Writers :
        BothReturned(w, v) =>
            /\ wr[w].result.ok /\ wr[v].result.ok
            /\ wr[w].result.hash = wr[v].result.hash
            /\ wr[w].result.path = wr[v].result.path
            /\ exists(fs, blob_path(w))
            /\ CompleteAt(blob_path(w))

(***************************************************************************)
(* C39: an execution id is in the active-executions table from before the  *)
(* engine call starts until the engine call has ended, and is absent once  *)
(* execute_udf has returned, on every return path (successful execution,   *)
(* failed execution, early error such as an invalid well id); after all    *)
(* calls have returned the table is empty.                                 *)
(***************************************************************************)
\* execute_udf_inner is being run for c: from its call to its return
InInner(c) == call[c].pc \in {"lock", "inner", "udf", "remove"}
HasReturned(c) == call[c].pc = "return"
NoneInFlight == \A c \in Callers : call[c].pc \in {"idle", "return"}

C39_ActiveWhileRunning ==
    /\ \A c \in Callers : InInner(c) => call[c].execution_id \in DOMAIN active
    /\ \A c \in Callers : HasReturned(c) => call[c].execution_id \notin DOMAIN active
    /\ NoneInFlight => active = EmptyMap

\* one call has returned the invalid-well-id error while the other is in the
\* engine, alone in the table
C39_Witness ==
    \E c, d \in Callers :
        /\ HasReturned(c)
        /\ ~call[c].result.ok
        /\ call[c].result.error = "Invalid well ID"
        /\ call[d].pc = "udf"
        /\ DOMAIN active = {call[d].execution_id}

\* every caller has made its call, one of them a successful execution, and
\* the table is empty
C39_WitnessAllReturned ==
    /\ \A c \in Callers : call[c].pc = "idle" /\ call[c].calls = MaxCalls
    /\ \E c \in Callers : call[c].result.ok /\ call[c].result.success
    /\ active = EmptyMap

(***************************************************************************)
(* C40: no command ever holds the ComputeState mutex and the               *)
(* ActiveExecutions lock at the same time, and execute_udf does not hold   *)
(* the ActiveExecutions lock while the engine runs; therefore the commands *)
(* cannot deadlock, and get_execution_progress, cancel_execution and       *)
(* list_active_executions complete while an execution is in flight.        *)
(***************************************************************************)
HoldsState(c) == mutex = c
HoldsExecutions(c) == call[c].guard # ""
EngineRuns(c) == call[c].pc \in {"inner", "udf"}
UnderWay(c) == call[c].pc \notin {"idle", "return"}

\* a step of execute_udf for c that is under way
CallerStep(c) ==
    \/ InsertExecution(c)
    \/ InsertGuardDropped(c)
    \/ LockState(c)
    \/ EngineStarts(c)
    \/ EngineEnds(c)
    \/ RemoveExecution(c)
    \/ RemoveGuardDropped(c)

\* the three commands that take the read lock can run for id
ReadersRun(id) ==
    /\ ENABLED GetExecutionProgress(id)
    /\ ENABLED CancelExecution(id)
    /\ ENABLED ListActiveExecutions

C40_LocksNeverNested ==
    /\ \A c \in Callers : ~(HoldsState(c) /\ HoldsExecutions(c))
    /\ \A c \in Callers : EngineRuns(c) => ~HoldsExecutions(c)
    \* a guard that is out can be dropped at once, and a call that is under
    \* way never finds every call blocked
    /\ \A c \in Callers : HoldsExecutions(c) => ENABLED CallerStep(c)
    /\ (\E c \in Callers : UnderWay(c)) => \E d \in Callers : ENABLED CallerStep(d)
    \* while the engine runs for c the readers wait for nothing but another
    \* call's insert or remove block
    /\ \A c \in Callers :
          EngineRuns(c) /\ (\A d \in Callers \ {c} : ~HoldsExecutions(d)) =>
              ReadersRun(call[c].execution_id)

\* both callers in execute_udf: one in the engine under the state mutex, the
\* other inside its insert block with the write guard, and a reader has
\* seen the first one's entry
C40_Witness ==
    \E c, d \in Callers :
        /\ call[c].pc = "udf" /\ HoldsState(c)
        /\ call[d].pc = "inserted" /\ HoldsExecutions(d)
        /\ obs.op = "get_execution_progress"
        /\ obs.found
        /\ obs.execution_id = call[c].execution_id

\* one caller waits for the state mutex while the other runs the engine
C40_WitnessWaitsForState ==
    \E c, d \in Callers :
        /\ call[c].pc = "udf" /\ HoldsState(c)
        /\ call[d].pc = "lock"
        /\ ~ENABLED LockState(d)
        /\ obs.op = "list_active_executions"
        /\ Len(obs.answer) = 2
====
